---- MODULE Spec2Model ----
(***************************************************************************)
(* Connection scoping of dinao's function binders.                         *)
(*                                                                         *)
(* FunctionBinder keeps the active connection in a threading.local,       *)
(* AsyncFunctionBinder in a contextvars.ContextVar.  A unit is a thread    *)
(* (mode "sync") or an asyncio task (mode "async").  Every unit executes   *)
(* a call tree made of connection() blocks, transaction-bound calls,       *)
(* bound execute/query calls, statements issued directly on the yielded    *)
(* connection, and generating (streaming) queries.                         *)
(*                                                                         *)
(* Spec        one unit running blocks, transaction calls and bound calls  *)
(* SpecUnits   the same, with further threads or tasks started on the way  *)
(* SpecStreams one unit that also uses generating queries                  *)
(***************************************************************************)
EXTENDS Integers, Sequences, FiniteSets, TLC

VARIABLES mode, started, cell, stack, exc, conns, clock, streams, txArg,
          fn, last, template, pool, db, runners

vars == <<mode, started, cell, stack, exc, conns, clock, streams, txArg,
          fn, last, template, pool, db, runners>>

(* ---------------------------- bounds ---------------------------------- *)

MaxUnits == 2
MaxDepth == 2
MaxCnx == 2
MaxStmts == 2
MaxRows == 2
MaxParams == 2
MaxCols == 2
MaxPieces == 3
MaxRunners == 3
MaxScripts == 2

Units == 1..MaxUnits
CnxIds == 1..MaxCnx
Streams == {"s1"}

(* ------------------------- connections -------------------------------- *)

\* the empty scope cell: getattr(..., "active_cnx", None) / ContextVar default
NoCnx == 0

\* the identity of a connection object that has not been created yet
FreeConnection ==
    [st |-> "free", ac |-> TRUE, commits |-> 0, auto |-> 0, rollbacks |-> 0,
     releases |-> 0, log |-> <<>>, cursors |-> 0, closed |-> 0]

\* ConnectionBase.__init__: every lease wraps the driver connection in a new
\* object whose autocommit flag is True
NewConnection ==
    [FreeConnection EXCEPT !.st = "leased"]

\* Connection.commit
Commit(conn) ==
    [conn EXCEPT !.commits = @ + 1]

\* Connection.rollback
Rollback(conn) ==
    [conn EXCEPT !.rollbacks = @ + 1]

\* ConnectionPool.release
Release(conn) ==
    [conn EXCEPT !.st = "released", !.releases = @ + 1]

\* the commit decision of Connection.execute: commit defaults to autocommit
ExecuteCommits(conn) ==
    conn.ac

\* mutant: the statement overtakes the ones already sent
LogStatementFirst(conn, stamp) ==
    [conn EXCEPT !.log = <<stamp>> \o @]

\* the statement reaches the connection: one more entry in its statement log
LogStatement(conn, stamp) ==
    [conn EXCEPT !.log = Append(@, stamp)]

\* self._cnx.cursor()
OpenCursor(conn) ==
    [conn EXCEPT !.cursors = @ + 1]

\* cursor.close()
CloseCursor(conn) ==
    [conn EXCEPT !.closed = @ + 1]

\* Connection.execute(sql, params): open a cursor, run the statement, commit
\* when autocommit is on, close the cursor (neither the commit nor the close
\* is reached when the driver raises)
ConnExecute(conn, stamp, ok) ==
    LET ran == LogStatement(OpenCursor(conn), stamp)
    IN  IF ~ok THEN ran
        ELSE IF ExecuteCommits(conn)
             THEN CloseCursor([Commit(ran) EXCEPT !.auto = @ + 1])
             ELSE CloseCursor(ran)

\* Connection.query(sql, params) up to its yield: open a cursor and run the
\* statement, never commits
ConnQuery(conn, stamp, ok) ==
    LogStatement(OpenCursor(conn), stamp)

\* Connection.query(sql, params) after its yield: "finally: cursor.close()";
\* the try block is not entered when the driver raised on the statement
QueryExit(conn, ok) ==
    IF ok THEN CloseCursor(conn) ELSE conn

\* cnx.execute (BoundExecution) or the whole of "with cnx.query(...)"
\* (BoundQuery)
ConnStatement(kind, conn, stamp, ok) ==
    IF kind = "execute" THEN ConnExecute(conn, stamp, ok)
                        ELSE QueryExit(ConnQuery(conn, stamp, ok), ok)

(* ------------------------ the scope exit ------------------------------ *)

\* mutant: the exit commits even when the block raised
ScopeExitCommitsAlways(conn, raised, commitOk, rollbackOk) ==
    LET afterTry == Commit(conn)
        failed == raised \/ ~commitOk
        afterExcept == IF failed THEN Rollback(afterTry) ELSE afterTry
    IN  Release(afterExcept)

\* mutant: no finally clause - a rollback that raises skips the release
ScopeExitLeaks(conn, raised, commitOk, rollbackOk) ==
    LET afterTry == IF raised THEN conn ELSE Commit(conn)
        failed == raised \/ ~commitOk
        afterExcept == IF failed THEN Rollback(afterTry) ELSE afterTry
    IN  IF failed /\ ~rollbackOk THEN afterExcept ELSE Release(afterExcept)

\* mutant: the exit never commits
ScopeExitNoCommit(conn, raised, commitOk, rollbackOk) ==
    LET failed == raised \/ ~commitOk
        afterExcept == IF failed THEN Rollback(conn) ELSE conn
    IN  Release(afterExcept)

\* connection(): what follows the yield of the entry that leased.
\*   try: yield; commit()   except: rollback(); raise   finally: release()
ScopeExit(conn, raised, commitOk, rollbackOk) ==
    LET afterTry == IF raised THEN conn ELSE Commit(conn)
        failed == raised \/ ~commitOk
        afterExcept == IF failed THEN Rollback(afterTry) ELSE afterTry
    IN  Release(afterExcept)

\* the exception that leaves connection() on the exit of the leasing entry
ScopeExitExc(e, commitOk, rollbackOk) ==
    IF e = "none"
    THEN IF commitOk THEN "none"
         ELSE IF rollbackOk THEN "commit" ELSE "rollback"
    ELSE IF rollbackOk THEN e ELSE "rollback"

\* the connection the exit code acts on: the sync binder re-reads the
\* thread-local cell, the async binder uses its local variable cnx
ExitCnxIn(m, u, c) ==
    IF m = "sync" THEN cell[u] ELSE c

\* the connection the exit code of the binder in use acts on
ExitCnx(u, c) ==
    ExitCnxIn(mode, u, c)

\* mutant: the async binder leases at every entry
MustLeaseWhenAsync(u) ==
    mode = "async" \/ cell[u] = NoCnx

\* mutant: every entry leases, whatever the cell holds
MustLeaseAlways(u) ==
    TRUE

\* connection(): "if active_cnx:" - the entry leases only when the cell is empty
MustLease(u) ==
    cell[u] = NoCnx

\* mutant: the transaction call leaves autocommit as it finds it
KeepAutocommit(conn) ==
    conn

\* BoundTransaction.__call__: cnx.autocommit = False
DisableAutocommit(conn) ==
    [conn EXCEPT !.ac = FALSE]

\* mutant: the connection argument is never filled in
InjectNothing(arg, c) ==
    NoCnx

\* BoundTransaction.__call__: kwargs[self._cnx_arg_name] = cnx
Inject(arg, c) ==
    IF arg # 0 THEN c ELSE NoCnx

(* ---------------------- binding a transaction ------------------------- *)

\* the declared parameters of a callable: "cnx" is a parameter whose
\* annotation is a Connection subclass
Signatures ==
    UNION {[1..n -> {"cnx", "other"}] : n \in 0..MaxParams}

RECURSIVE CnxArgFrom(_, _, _)
\* BoundTransactionBase.__init__: scan the parameters in order, remember the
\* connection-typed one, fail on a second one
CnxArgFrom(sig, i, found) ==
    IF i > Len(sig) THEN [bound |-> TRUE, error |-> "none", arg |-> found]
    ELSE IF sig[i] = "cnx"
         THEN IF found # 0
              THEN [bound |-> FALSE, error |-> "MultipleConnectionArgumentError", arg |-> 0]
              ELSE CnxArgFrom(sig, i + 1, i)
         ELSE CnxArgFrom(sig, i + 1, found)

\* the outcome of binding a callable with transaction(): the bound function
\* and its _cnx_arg_name (0: no connection parameter), or the bind-time error
BindOutcome(sig) ==
    CnxArgFrom(sig, 1, 0)

\* no callable has been bound yet
Unbound ==
    [bound |-> FALSE, error |-> "none", arg |-> 0]

(* ------------------- binding execute and query ------------------------ *)

\* a type as it is written in a return annotation: the spelling of the type
\* and its type arguments (no arguments: the bare type)
Type(name, args) ==
    [name |-> name, args |-> args]

Bare(name) ==
    Type(name, <<>>)

\* inspect.Signature.empty: the callable declares no return type
Empty ==
    Bare("empty")

\* the annotation "-> None", and NoneType as a type argument
NoneT ==
    Bare("None")

\* Optional[t] is Union[t, None]
OptionalOf(t) ==
    Type("Union", <<t, NoneT>>)

\* the callable being decorated, before any bind: its parameters (see
\* Signatures; the i-th parameter is named i) and its return annotation
PlainFn(sig, ret) ==
    [kind |-> "plain", sig |-> sig, ret |-> ret, strategy |-> "none",
     mapper |-> "none", row |-> NoneT]

\* no template has been constructed yet
NoTemplate ==
    [error |-> "none", line |-> <<>>, col |-> 0, source |-> <<>>,
     parsed |-> <<>>, arguments |-> <<>>]

\* no database is migrated and no runner is constructed
NoDatabase ==
    [backend |-> "none", mung_symbol |-> [is |-> "str", of |-> <<>>],
     tables |-> FALSE,
     state |-> [status |-> "none", target_revision |-> 0,
                applied_count |-> 0],
     revisions |-> <<>>, applied |-> <<>>]

NoRunners ==
    <<>>

\* a connection pool: its name, and whether it is an AsyncConnectionPool
Pool(name, async) ==
    [name |-> name, async |-> async]

\* no pool has been assigned to the binder yet: self._cnx_pool is None
NoPool ==
    Pool("none", FALSE)

\* the pools an application has
Pools ==
    {Pool(name, async) : name \in {"pool1", "pool2"}, async \in BOOLEAN}

\* nothing has been bound or called yet
NoOutcome ==
    [op |-> "none", error |-> "none"]

\* typing.get_origin: Union for a union, the class an alias of the typing
\* module stands for, the generic class of a parameterized type, and None
\* ("none") for a bare class
AliasOf ==
    ("typing.List" :> "list") @@ ("typing.Sequence" :> "abc.Sequence") @@
    ("typing.Iterable" :> "abc.Iterable") @@ ("typing.Dict" :> "dict") @@
    ("typing.Mapping" :> "abc.Mapping") @@ ("typing.Tuple" :> "tuple") @@
    ("typing.Generator" :> "abc.Generator")

GetOrigin(t) ==
    IF t.name = "Union" THEN "Union"
    ELSE IF t.name \in DOMAIN AliasOf THEN AliasOf[t.name]
    ELSE IF t.args # <<>> THEN t.name
    ELSE "none"

TUPLE_GENERICS ==
    {"tuple", "typing.Tuple"}

GENERATOR_GENERICS ==
    {"abc.Generator", "typing.Generator"}

DICT_GENERICS ==
    {"dict", "typing.Dict", "typing.Mapping", "abc.Mapping"}

LIST_GENERICS ==
    {"list", "typing.List", "typing.Iterable", "abc.Sequence", "abc.Iterable"}

NATIVE_SINGLE ==
    {"str", "int", "float", "complex", "datetime", "UUID"}

\* "type_hint in [ ... ]": equal to one of the listed objects, which are all
\* bare; a parameterized type equals none of them
In(t, listed) ==
    t.args = <<>> /\ t.name \in listed

\* inspect.isclass: true of classes (builtin, collections.abc or user
\* defined), false of None, NoReturn, typing aliases and parameterized types
IsClass(t) ==
    /\ t.args = <<>>
    /\ t.name \notin DOMAIN AliasOf \cup {"None", "NoReturn", "Union", "empty"}

\* _unwrap_optional answers None: the hint is not Optional[X]
NotOptional ==
    Bare("not optional")

\* mutant: any union is unwrapped to its first member that is not NoneType
UnwrapOptionalAnyUnion(t) ==
    IF GetOrigin(t) # "Union" \/ t.args = <<>> THEN NotOptional
    ELSE LET others == SelectSeq(t.args, LAMBDA a : a # NoneT)
         IN  IF Len(others) >= 1 THEN others[1] ELSE NotOptional

\* _unwrap_optional: X for Optional[X], i.e. for a union with exactly one
\* member that is not NoneType
UnwrapOptional(t) ==
    IF GetOrigin(t) # "Union" \/ t.args = <<>> THEN NotOptional
    ELSE LET others == SelectSeq(t.args, LAMBDA a : a # NoneT)
         IN  IF Len(others) = 1 THEN others[1] ELSE NotOptional

\* get_row_mapper: the mapper registered for a row type, "none" when there
\* is none
GetRowMapper(t) ==
    IF GetOrigin(t) # "none" /\ t.args # <<>> THEN "none"
    ELSE IF In(t, TUPLE_GENERICS) THEN "tuple"
    ELSE IF In(t, DICT_GENERICS) THEN "dict"
    ELSE IF In(t, NATIVE_SINGLE) THEN "single"
    ELSE IF IsClass(t) THEN "class"
    ELSE "none"

\* a bind that raised
Failed(error) ==
    [error |-> error, strategy |-> "none", mapper |-> "none", row |-> NoneT]

\* a bind that produced a bound function
Built(strategy, mapper) ==
    [error |-> "none", strategy |-> strategy, mapper |-> mapper, row |-> NoneT]

\* a bind that produced a bound function with a row mapper: the mapper
\* get_row_mapper(row_type) answered, ClassRowMapper keeping the row type
BuiltWith(strategy, mapper, row_type) ==
    [Built(strategy, mapper) EXCEPT !.row = row_type]

\* the parameter names a signature declares
Parameters(sig) ==
    DOMAIN sig

\* mutant: the template is not compared with the signature
TemplateArgumentsUnchecked(paths, sig) ==
    TRUE

\* BoundSQLFunction.__init__: the first segment of every template argument
\* must be a parameter of the callable
TemplateArgumentsDeclared(paths, sig) ==
    \A i \in DOMAIN paths : paths[i][1] \in Parameters(sig)

\* BoundQueryBase.__init__: the if/elif chain over the unwrapped return type
ReturnShape(rt) ==
    LET g == GetOrigin(rt)
    IN  IF In(rt, {"None", "NoReturn"}) THEN [strategy |-> "none", row |-> NoneT]
        ELSE IF g = "none" THEN [strategy |-> "one", row |-> rt]
        ELSE IF g \in DICT_GENERICS /\ rt.args = <<>>
             THEN [strategy |-> "one", row |-> Bare("dict")]
        ELSE IF g \in LIST_GENERICS
             THEN [strategy |-> "many",
                   row |-> IF rt.args # <<>> THEN rt.args[1] ELSE Bare("tuple")]
        ELSE [strategy |-> "error", row |-> NoneT]

\* BoundQueryBase.__init__: the return strategy and the row mapper inferred
\* from the return annotation
BoundQueryInit(ret) ==
    LET declared == IF ret = Empty THEN Type("typing.List", <<Bare("tuple")>>) ELSE ret
        unwrapped == UnwrapOptional(declared)
        rt == IF unwrapped # NotOptional THEN unwrapped ELSE declared
        shape == ReturnShape(rt)
        mapper == GetRowMapper(shape.row)
    IN  IF shape.strategy = "error" THEN Failed("CannotInferMappingError")
        ELSE IF shape.strategy # "none" /\ mapper = "none"
             THEN Failed("CannotInferMappingError")
        ELSE BuiltWith(shape.strategy, mapper, shape.row)

\* BoundGeneratingQueryBase.__init__ and _validate_generic_args: only the
\* yield type of a generator may be given
BoundGeneratingQueryInit(ret) ==
    IF GetOrigin(ret) \notin GENERATOR_GENERICS THEN Failed("BadReturnTypeError")
    ELSE IF ret.args # <<>> /\ SubSeq(ret.args, 2, 3) # <<NoneT, NoneT>>
         THEN Failed("CannotInferMappingError")
    ELSE LET row_type == IF ret.args # <<>> THEN ret.args[1] ELSE Bare("tuple")
         IN  BuiltWith("stream", GetRowMapper(row_type), row_type)

\* mutant: any declared return type is accepted
BoundExecutionInitAny(ret) ==
    IF ret = Empty \/ ret = NoneT THEN Built("none", "none")
    ELSE Built("count", "none")

\* BoundExecutionBase.__init__: the return annotation is absent, None or int
BoundExecutionInit(ret) ==
    IF ret = Empty \/ ret = NoneT THEN Built("none", "none")
    ELSE IF ret # Bare("int") THEN Failed("BadReturnTypeError")
    ELSE Built("count", "none")

(* --------------------------- frames ----------------------------------- *)

Frame(kind, c, leased, inj, ac0) ==
    [kind |-> kind, cnx |-> c, leased |-> leased, inj |-> inj, ac0 |-> ac0]

Top(u) ==
    stack[u][Len(stack[u])]

Pop(u) ==
    SubSeq(stack[u], 1, Len(stack[u]) - 1)

NoStream ==
    [st |-> "unused", owner |-> 0, cnx |-> NoCnx, leased |-> FALSE,
     rows |-> <<>>, got |-> <<>>, fetches |-> 0]

\* the result of a query that finds n rows, as the cursor holds it: the k-th
\* row is the one-column tuple <<k>>
CursorRows(n) ==
    [k \in 1..n |-> <<k>>]

\* SingleValueRowMapper.__call__: the only column of the row
MapRow(row) ==
    row[1]

\* mutant: the generator yields the last row the cursor holds
FetchLast(str) ==
    [str EXCEPT !.rows = Tail(@), !.got = Append(@, MapRow(str.rows[Len(str.rows)])),
                !.fetches = @ + 1]

\* results.fetchone() found a row and the generator yields it mapped:
\* the head of what the cursor has left goes, mapped, to the consumer
Fetch(str) ==
    [str EXCEPT !.rows = Tail(@), !.got = Append(@, MapRow(Head(str.rows))),
                !.fetches = @ + 1]

\* a finished generator is garbage; calling the bound function again builds a
\* fresh one
DoneStream ==
    NoStream

(* ------------------------- the pool ----------------------------------- *)

\* something still holds a reference to connection object c: a cell, an
\* entry in progress or a suspended generating query
Referenced(c) ==
    \/ \E u \in Units : cell[u] = c
    \/ \E u \in Units : \E i \in DOMAIN stack[u] : stack[u][i].cnx = c
    \/ \E s \in Streams : streams[s].st = "open" /\ streams[s].cnx = c

\* the identities a new connection object can take: those of objects that
\* are not leased and that nothing refers to any more
FreeSlots ==
    {c \in CnxIds : conns[c].st # "leased" /\ ~Referenced(c)}

\* pool.lease(): the identity of the connection object it returns
Lease ==
    CHOOSE c \in FreeSlots : \A d \in FreeSlots : c <= d

\* u is running and no exception is propagating in it; bound functions are
\* created when the decorations are evaluated, before any call is made
Idle(u) ==
    u \in started /\ exc[u] = "none" /\ txArg.bound

(* ---------------------------- Init ------------------------------------ *)

Init ==
    /\ mode \in {"sync", "async"}
    /\ started = {1}
    /\ cell = [u \in Units |-> NoCnx]
    /\ stack = [u \in Units |-> <<>>]
    /\ exc = [u \in Units |-> "none"]
    /\ conns = [c \in CnxIds |-> FreeConnection]
    /\ clock = 0
    /\ streams = [s \in Streams |-> NoStream]
    /\ txArg = Unbound
    /\ fn = PlainFn(<<>>, Empty)
    /\ last = NoOutcome
    /\ template = NoTemplate
    /\ pool = Pool("pool1", mode = "async")
    /\ db = NoDatabase
    /\ runners = NoRunners

(* --------------------------- actions ---------------------------------- *)

\* threading.Thread(...).start() / asyncio.create_task(...): a new thread
\* starts with an empty thread-local, a new task starts with a copy of the
\* context of the task that created it
StartUnit(p, u) ==
    /\ Idle(p)
    /\ u \notin started
    /\ u = Cardinality(started) + 1
    /\ started' = started \cup {u}
    /\ cell' = [cell EXCEPT ![u] = IF mode = "async" THEN cell[p] ELSE NoCnx]
    /\ UNCHANGED <<db, runners, template, pool, fn, last, mode, stack, exc, conns, clock, streams, txArg>>

\* binder.transaction()(func): BoundTransactionBase.__init__
BindTransaction(sig) ==
    /\ txArg = Unbound
    /\ txArg' = BindOutcome(sig)
    /\ UNCHANGED <<db, runners, template, pool, fn, last, mode, started, cell, stack, exc, conns, clock, streams>>

\* mutant: the cell is assigned before pool.lease() has returned
EnterAssigningFirst(u, kind) ==
    /\ Idle(u)
    /\ Len(stack[u]) < MaxDepth
    /\ LET arg == IF kind = "tx" THEN txArg.arg ELSE 0
           setup(conn) == IF kind = "tx" THEN DisableAutocommit(conn) ELSE conn
       IN  IF pool = NoPool
           THEN /\ exc' = [exc EXCEPT ![u] = "NoPoolSetError"]
                /\ UNCHANGED <<cell, stack, conns>>
           ELSE IF ~MustLease(u)
           THEN LET c == cell[u]
                IN  /\ stack' = [stack EXCEPT ![u] =
                           Append(@, Frame(kind, c, FALSE, Inject(arg, c), conns[c].ac))]
                    /\ conns' = [conns EXCEPT ![c] = setup(@)]
                    /\ UNCHANGED <<cell, exc>>
           ELSE \E leaseOk \in BOOLEAN :
                IF leaseOk
                THEN /\ FreeSlots # {}
                     /\ LET c == Lease
                        IN  /\ cell' = [cell EXCEPT ![u] = c]
                            /\ conns' = [conns EXCEPT ![c] = setup(NewConnection)]
                            /\ stack' = [stack EXCEPT ![u] =
                                   Append(@, Frame(kind, c, TRUE, Inject(arg, c), TRUE))]
                            /\ UNCHANGED exc
                ELSE /\ FreeSlots # {}
                     /\ exc' = [exc EXCEPT ![u] = "lease"]
                     /\ cell' = [cell EXCEPT ![u] = Lease]
                     /\ UNCHANGED <<stack, conns>>
    /\ UNCHANGED <<db, runners, template, pool, fn, last, mode, started, clock, streams, txArg>>

\* entry into connection(), for a "with binder.connection()" block (kind
\* "cnx") or a transaction-bound call (kind "tx"); it raises before anything
\* else when the binder has no pool
Enter(u, kind) ==
    /\ Idle(u)
    /\ Len(stack[u]) < MaxDepth
    /\ LET arg == IF kind = "tx" THEN txArg.arg ELSE 0
           setup(conn) == IF kind = "tx" THEN DisableAutocommit(conn) ELSE conn
       IN  IF pool = NoPool
           THEN /\ exc' = [exc EXCEPT ![u] = "NoPoolSetError"]
                /\ UNCHANGED <<cell, stack, conns>>
           ELSE IF ~MustLease(u)
           THEN LET c == cell[u]
                IN  /\ stack' = [stack EXCEPT ![u] =
                           Append(@, Frame(kind, c, FALSE, Inject(arg, c), conns[c].ac))]
                    /\ conns' = [conns EXCEPT ![c] = setup(@)]
                    /\ UNCHANGED <<cell, exc>>
           ELSE \E leaseOk \in BOOLEAN :
                IF leaseOk
                THEN /\ FreeSlots # {}
                     /\ LET c == Lease
                        IN  /\ cell' = [cell EXCEPT ![u] = c]
                            /\ conns' = [conns EXCEPT ![c] = setup(NewConnection)]
                            /\ stack' = [stack EXCEPT ![u] =
                                   Append(@, Frame(kind, c, TRUE, Inject(arg, c), TRUE))]
                            /\ UNCHANGED exc
                ELSE /\ exc' = [exc EXCEPT ![u] = "lease"]
                     /\ UNCHANGED <<cell, stack, conns>>
    /\ UNCHANGED <<db, runners, template, pool, fn, last, mode, started, clock, streams, txArg>>

\* BoundExecution.__call__ / BoundQuery.__call__: the whole call - render
\* with the binder's mung symbol, which raises when the binder has no pool,
\* enter connection(), run the statement, leave connection()
BoundCall(u, kind) ==
    /\ Idle(u)
    /\ clock < MaxStmts
    /\ IF pool = NoPool
       THEN /\ exc' = [exc EXCEPT ![u] = "NoPoolSetError"]
            /\ UNCHANGED <<cell, conns, clock>>
       ELSE IF ~MustLease(u)
       THEN \E ok \in BOOLEAN :
            /\ conns' = [conns EXCEPT ![cell[u]] = ConnStatement(kind, @, clock + 1, ok)]
            /\ clock' = clock + 1
            /\ exc' = [exc EXCEPT ![u] = IF ok THEN "none" ELSE "driver"]
            /\ UNCHANGED cell
       ELSE \E leaseOk, ok, commitOk, rollbackOk \in BOOLEAN :
            IF leaseOk
            THEN /\ FreeSlots # {}
                 /\ LET c == Lease
                        ran == ConnStatement(kind, NewConnection, clock + 1, ok)
                    IN  /\ clock' = clock + 1
                        /\ conns' = [conns EXCEPT ![c] =
                               ScopeExit(ran, ~ok, commitOk, rollbackOk)]
                        /\ exc' = [exc EXCEPT ![u] =
                               ScopeExitExc(IF ok THEN "none" ELSE "driver",
                                            commitOk, rollbackOk)]
                        /\ UNCHANGED cell
            ELSE /\ exc' = [exc EXCEPT ![u] = "lease"]
                 /\ UNCHANGED <<cell, conns, clock>>
    /\ UNCHANGED <<db, runners, template, pool, fn, last, mode, started, stack, streams, txArg>>

\* the body of a block or the wrapped callable of a transaction issues a
\* statement directly on the connection it was given
DirectStatement(u) ==
    /\ Idle(u)
    /\ clock < MaxStmts
    /\ stack[u] # <<>>
    /\ Top(u).kind = "tx" => Top(u).inj # NoCnx
    /\ \E ok \in BOOLEAN :
       /\ conns' = [conns EXCEPT ![Top(u).cnx] = ConnExecute(@, clock + 1, ok)]
       /\ exc' = [exc EXCEPT ![u] = IF ok THEN "none" ELSE "driver"]
    /\ clock' = clock + 1
    /\ UNCHANGED <<db, runners, template, pool, fn, last, mode, started, cell, stack, streams, txArg>>

\* the body of a block or the wrapped callable raises
Raise(u) ==
    /\ Idle(u)
    /\ stack[u] # <<>>
    /\ exc' = [exc EXCEPT ![u] = "app"]
    /\ UNCHANGED <<db, runners, template, pool, fn, last, mode, started, cell, stack, conns, clock, streams, txArg>>

\* a caller catches the exception that is propagating
Catch(u) ==
    /\ u \in started
    /\ exc[u] # "none"
    /\ exc' = [exc EXCEPT ![u] = "none"]
    /\ UNCHANGED <<db, runners, template, pool, fn, last, mode, started, cell, stack, conns, clock, streams, txArg>>

\* mutant: an exception that passes through a nested entry rolls back
LeaveRollingBack(u) ==
    /\ u \in started
    /\ stack[u] # <<>>
    /\ stack' = [stack EXCEPT ![u] = Pop(u)]
    /\ IF Top(u).leased
       THEN \E commitOk, rollbackOk \in BOOLEAN :
            LET c == ExitCnx(u, Top(u).cnx)
            IN  /\ conns' = [conns EXCEPT ![c] =
                       ScopeExit(@, exc[u] # "none", commitOk, rollbackOk)]
                /\ exc' = [exc EXCEPT ![u] = ScopeExitExc(@, commitOk, rollbackOk)]
                /\ cell' = [cell EXCEPT ![u] = NoCnx]
       ELSE /\ conns' = [conns EXCEPT ![Top(u).cnx] =
                   IF exc[u] # "none" THEN Rollback(@) ELSE @]
            /\ UNCHANGED <<cell, exc>>
    /\ UNCHANGED <<db, runners, template, pool, fn, last, mode, started, clock, streams, txArg>>

\* leaving the innermost open entry of u: normally (exc[u] = "none") or with
\* the exception that is propagating through it
Leave(u) ==
    /\ u \in started
    /\ stack[u] # <<>>
    /\ stack' = [stack EXCEPT ![u] = Pop(u)]
    /\ IF Top(u).leased
       THEN \E commitOk, rollbackOk \in BOOLEAN :
            LET c == ExitCnx(u, Top(u).cnx)
            IN  /\ conns' = [conns EXCEPT ![c] =
                       ScopeExit(@, exc[u] # "none", commitOk, rollbackOk)]
                /\ exc' = [exc EXCEPT ![u] = ScopeExitExc(@, commitOk, rollbackOk)]
                /\ cell' = [cell EXCEPT ![u] = NoCnx]
       ELSE UNCHANGED <<cell, exc, conns>>
    /\ UNCHANGED <<db, runners, template, pool, fn, last, mode, started, clock, streams, txArg>>

\* the generating query leaves "with cnx.query(...)": the connections after
\* the cursor of stream s has been closed
CursorClosed(s) ==
    [conns EXCEPT ![streams[s].cnx] = CloseCursor(@)]

\* mutant: the call itself runs the query on the connection of the scope
StreamCallEager(u, s) ==
    /\ Idle(u)
    /\ streams[s].st = "unused"
    /\ clock < MaxStmts
    /\ ~MustLease(u)
    /\ streams' = [streams EXCEPT ![s] = [NoStream EXCEPT !.st = "new", !.owner = u]]
    /\ conns' = [conns EXCEPT ![cell[u]] = ConnQuery(@, clock + 1, TRUE)]
    /\ clock' = clock + 1
    /\ UNCHANGED <<db, runners, template, pool, fn, last, mode, started, cell, stack, exc, txArg>>

\* calling a bound generating query: builds the generator, runs none of it
StreamCall(u, s) ==
    /\ Idle(u)
    /\ streams[s].st = "unused"
    /\ streams' = [streams EXCEPT ![s] = [NoStream EXCEPT !.st = "new", !.owner = u]]
    /\ UNCHANGED <<db, runners, template, pool, fn, last, mode, started, cell, stack, exc, conns, clock, txArg>>

\* first pull: enter connection(), run the query, fetch the first row
StreamFirstPull(u, s) ==
    /\ Idle(u)
    /\ streams[s].st = "new"
    /\ streams[s].owner = u
    /\ clock < MaxStmts
    /\ \E leaseOk, ok, commitOk, rollbackOk \in BOOLEAN, rows \in 0..MaxRows :
       IF pool = NoPool
       THEN /\ exc' = [exc EXCEPT ![u] = "NoPoolSetError"]
            /\ streams' = [streams EXCEPT ![s] = DoneStream]
            /\ UNCHANGED <<cell, conns, clock>>
       ELSE IF MustLease(u) /\ ~leaseOk
       THEN /\ exc' = [exc EXCEPT ![u] = "lease"]
            /\ streams' = [streams EXCEPT ![s] = DoneStream]
            /\ UNCHANGED <<cell, conns, clock>>
       ELSE LET lease == MustLease(u)
                c == IF lease THEN Lease ELSE cell[u]
                ran == ConnQuery(IF lease THEN NewConnection ELSE conns[c], clock + 1, ok)
                ends == ~ok \/ rows = 0
                after == IF ends THEN QueryExit(ran, ok) ELSE ran
            IN  /\ lease => FreeSlots # {}
                /\ clock' = clock + 1
                /\ conns' = [conns EXCEPT ![c] =
                       IF lease /\ ends THEN ScopeExit(after, ~ok, commitOk, rollbackOk)
                                        ELSE after]
                /\ exc' = [exc EXCEPT ![u] =
                       IF lease THEN IF ends
                                     THEN ScopeExitExc(IF ok THEN "none" ELSE "driver",
                                                       commitOk, rollbackOk)
                                     ELSE "none"
                       ELSE IF ok THEN "none" ELSE "driver"]
                /\ cell' = [cell EXCEPT ![u] = IF lease /\ ~ends THEN c ELSE @]
                /\ streams' = [streams EXCEPT ![s] =
                       IF ends THEN DoneStream
                       ELSE Fetch([st |-> "open", owner |-> u, cnx |-> c,
                                   leased |-> lease, rows |-> CursorRows(rows),
                                   got |-> <<>>, fetches |-> 0])]
    /\ UNCHANGED <<db, runners, template, pool, fn, last, mode, started, stack, txArg>>

\* a later pull: fetch the next row; when there is none the generator leaves
\* its with-blocks and finishes
StreamPull(u, s) ==
    /\ Idle(u)
    /\ streams[s].st = "open"
    /\ streams[s].owner = u
    /\ IF streams[s].rows # <<>>
       THEN /\ streams' = [streams EXCEPT ![s] = Fetch(@)]
            /\ UNCHANGED <<cell, exc, conns>>
       ELSE /\ streams' = [streams EXCEPT ![s] = DoneStream]
            /\ IF streams[s].leased
               THEN \E commitOk, rollbackOk \in BOOLEAN :
                    LET c == ExitCnx(u, streams[s].cnx)
                    IN  /\ conns' = [CursorClosed(s) EXCEPT ![c] =
                               ScopeExit(@, FALSE, commitOk, rollbackOk)]
                        /\ exc' = [exc EXCEPT ![u] =
                               ScopeExitExc("none", commitOk, rollbackOk)]
                        /\ cell' = [cell EXCEPT ![u] = NoCnx]
               ELSE /\ conns' = CursorClosed(s)
                    /\ UNCHANGED <<cell, exc>>
    /\ UNCHANGED <<db, runners, template, pool, fn, last, mode, started, stack, clock, txArg>>

\* the consumer closes the generator before exhaustion, in the unit that
\* pulled it: GeneratorExit is raised at the yield, the bare except of
\* connection() rolls back and re-raises it, and close() absorbs it
StreamClose(u, s) ==
    /\ Idle(u)
    /\ streams[s].st = "open"
    /\ streams[s].owner = u
    /\ streams' = [streams EXCEPT ![s] = DoneStream]
    /\ IF streams[s].leased
       THEN \E rollbackOk \in BOOLEAN :
            LET c == ExitCnx(u, streams[s].cnx)
                out == ScopeExitExc("GeneratorExit", TRUE, rollbackOk)
            IN  /\ conns' = [CursorClosed(s) EXCEPT ![c] =
                       ScopeExit(@, TRUE, TRUE, rollbackOk)]
                /\ exc' = [exc EXCEPT ![u] = IF out = "GeneratorExit" THEN "none" ELSE out]
                /\ cell' = [cell EXCEPT ![u] = NoCnx]
       ELSE /\ conns' = CursorClosed(s)
            /\ UNCHANGED <<cell, exc>>
    /\ UNCHANGED <<db, runners, template, pool, fn, last, mode, started, stack, clock, txArg>>

\* an abandoned async generator is finalized by the event loop, in a task of
\* its own: the exit code runs in another context than the consumer's
StreamFinalize(s) ==
    /\ mode = "async"
    /\ streams[s].st = "open"
    /\ streams' = [streams EXCEPT ![s] = DoneStream]
    /\ IF streams[s].leased
       THEN \E rollbackOk \in BOOLEAN :
            conns' = [CursorClosed(s) EXCEPT ![streams[s].cnx] =
                         ScopeExit(@, TRUE, TRUE, rollbackOk)]
       ELSE conns' = CursorClosed(s)
    /\ UNCHANGED <<db, runners, template, pool, fn, last, mode, started, cell, stack, exc, clock, txArg>>

\* the steps of a program whose call tree runs in one unit: binding, blocks,
\* transaction calls, bound calls, direct statements and exceptions
Next ==
    \/ \E sig \in Signatures : BindTransaction(sig)
    \/ \E u \in Units, kind \in {"cnx", "tx"} : Enter(u, kind)
    \/ \E u \in Units, kind \in {"execute", "query"} : BoundCall(u, kind)
    \/ \E u \in Units : DirectStatement(u)
    \/ \E u \in Units : Raise(u)
    \/ \E u \in Units : Catch(u)
    \/ \E u \in Units : Leave(u)

\* the steps of a program that starts further threads or tasks, each running
\* blocks, transactions and bound calls
NextUnits ==
    \/ Next
    \/ \E p, u \in Units : StartUnit(p, u)

\* the steps of a program that also uses generating queries
NextStreams ==
    \/ Next
    \/ \E u \in Units, s \in Streams : StreamCall(u, s)
    \/ \E u \in Units, s \in Streams : StreamFirstPull(u, s)
    \/ \E u \in Units, s \in Streams : StreamPull(u, s)
    \/ \E u \in Units, s \in Streams : StreamClose(u, s)
    \/ \E s \in Streams : StreamFinalize(s)

Spec == Init /\ [][Next]_vars

\* a binder that overwrites its pool
SetPoolAgain(p) ==
    /\ pool' = p
    /\ last' = [op |-> "pool", error |-> "none", pool |-> p]
    /\ UNCHANGED <<db, runners, template, mode, started, cell, stack, exc, conns, clock, streams, txArg, fn>>

\* binder.pool = p: the setter of FunctionBinderBase, with the
\* _validate_pool of the async binder
SetPool(p) ==
    /\ LET error == IF pool # NoPool THEN "PoolAlreadySetError"
                    ELSE IF mode = "async" /\ ~p.async
                    THEN "AsyncPoolRequiredError"
                    ELSE "none"
       IN  /\ pool' = IF error = "none" THEN p ELSE pool
           /\ last' = [op |-> "pool", error |-> error, pool |-> p]
    /\ UNCHANGED <<db, runners, template, mode, started, cell, stack, exc, conns, clock, streams, txArg, fn>>

\* a binder has just been constructed: it has no pool
InitPool ==
    /\ mode \in {"sync", "async"}
    /\ started = {1}
    /\ cell = [u \in Units |-> NoCnx]
    /\ stack = [u \in Units |-> <<>>]
    /\ exc = [u \in Units |-> "none"]
    /\ conns = [c \in CnxIds |-> FreeConnection]
    /\ clock = 0
    /\ streams = [s \in Streams |-> NoStream]
    /\ txArg = Unbound
    /\ fn = PlainFn(<<>>, Empty)
    /\ last = NoOutcome
    /\ template = NoTemplate
    /\ pool = NoPool
    /\ db = NoDatabase
    /\ runners = NoRunners

NextPool ==
    \/ Next
    \/ \E p \in Pools : SetPool(p)

\* the steps of a program from the construction of its binder on: the pool
\* is assigned at any moment, or never
SpecPool == InitPool /\ [][NextPool]_vars

SpecUnits == Init /\ [][NextUnits]_vars

SpecStreams == Init /\ [][NextStreams]_vars

(* ------------- decorating a callable and calling the result ----------- *)

\* the classes and aliases a return annotation is written with
TypeNames ==
    {"None", "NoReturn", "int", "str", "bool", "Rec", "tuple", "dict", "list",
     "abc.Sequence", "abc.Iterable", "abc.Mapping", "typing.List",
     "typing.Sequence", "typing.Iterable", "typing.Dict", "typing.Mapping",
     "typing.Tuple", "typing.Generator"}

\* the spellings of a list type that take an element type
ListSpellings ==
    {"list", "typing.List", "typing.Sequence", "typing.Iterable",
     "abc.Sequence", "abc.Iterable"}

\* Dict[str, int], Tuple[int, str] and their other spellings
ParameterizedMaps ==
    {Type(n, <<Bare("str"), Bare("int")>>) : n \in {"dict", "typing.Dict", "typing.Mapping"}}

ParameterizedTuples ==
    {Type(n, <<Bare("int"), Bare("str")>>) : n \in {"tuple", "typing.Tuple"}}

\* the types declared for one row
RowTypes ==
    {Bare(n) : n \in {"int", "Rec", "tuple", "dict"}}
    \cup {Type("typing.Dict", <<Bare("str"), Bare("int")>>),
          Type("typing.Tuple", <<Bare("int"), Bare("str")>>),
          Type("typing.List", <<Bare("int")>>),
          OptionalOf(Bare("int"))}

ListTypes ==
    {Type(n, <<e>>) : n \in ListSpellings, e \in RowTypes}

\* the return annotations the decorated callables declare
ReturnTypes ==
    {Empty}
    \cup {Bare(n) : n \in TypeNames}
    \cup ListTypes \cup ParameterizedMaps \cup ParameterizedTuples
    \cup {OptionalOf(t) : t \in RowTypes \cup {Bare("list"), Bare("typing.List")}}
    \cup {Type("Union", <<Bare("int"), Bare("str")>>),
          Type("Union", <<Bare("int"), Bare("str"), NoneT>>)}
    \cup {Type("typing.Generator", <<e, NoneT, NoneT>>) : e \in RowTypes}
    \cup {Type("typing.Generator", <<Bare("int"), Bare("int"), NoneT>>)}

\* a placeholder path of a template: the name of a parameter (the i-th
\* parameter is named i; MaxParams + 1 names no parameter of any callable),
\* possibly followed by a member or key (0)
Paths ==
    {<<h>> : h \in 1..(MaxParams + 1)} \cup {<<h, 0>> : h \in {1, MaxParams + 1}}

\* Template.arguments of the templates that are bound: the paths of the
\* placeholders in order of appearance, a path as often as it occurs
Templates ==
    {<<>>} \cup {<<p>> : p \in Paths} \cup (Paths \X Paths)

\* the class of bound function each binder operation builds
KindOf(by, ret) ==
    IF by = "query" /\ GetOrigin(ret) \in GENERATOR_GENERICS THEN "generating"
    ELSE by

\* mutant: a bound transaction is not recognised as a bound function
AlreadyBoundSQL(func) ==
    func.kind \in {"execute", "query", "generating"}

\* _raise_for_multi_binding: isinstance(func, BoundFunction)
AlreadyBound(func) ==
    func.kind # "plain"

\* binder.execute(sql)(func), binder.query(sql)(func) and
\* binder.transaction()(func): the checks in the order the code makes them
Decorate(by, func, paths) ==
    IF AlreadyBound(func) THEN Failed("FunctionAlreadyBoundError")
    ELSE IF by = "transaction"
         THEN IF BindOutcome(func.sig).bound THEN Built("none", "none")
              ELSE Failed(BindOutcome(func.sig).error)
    ELSE IF ~TemplateArgumentsDeclared(paths, func.sig)
         THEN Failed("MissingTemplateArgumentError")
    ELSE IF by = "execute" THEN BoundExecutionInit(func.ret)
    ELSE IF GetOrigin(func.ret) \in GENERATOR_GENERICS
         THEN BoundGeneratingQueryInit(func.ret)
    ELSE BoundQueryInit(func.ret)

\* the values a bound call returns
NoneValue ==
    [is |-> "None", of |-> <<>>]

Count(n) ==
    [is |-> "int", of |-> <<n>>]

\* True and False
Bool(b) ==
    [is |-> "bool", of |-> <<b>>]

Returned(value) ==
    [error |-> "none", value |-> value]

Raised(error) ==
    [error |-> error, value |-> NoneValue]

\* the position of the last column of the description that has this name
LastNamed(description, name) ==
    CHOOSE i \in DOMAIN description :
        /\ description[i] = name
        /\ \A j \in DOMAIN description : description[j] = name => j <= i

\* DictRowMapper.__call__: {d.name: row[col] for col, d in
\* enumerate(description)} - a later column of the same name replaces an
\* earlier one
DictOf(row, description) ==
    [name \in {description[i] : i \in DOMAIN description} |->
         row[LastNamed(description, name)]]

\* the fields of the record classes (dataclasses) that are mapped
Fields ==
    [Rec |-> {"a"}]

\* the builtin classes that are mapped: called without arguments they give
\* their empty value, and they take no keyword arguments
Builtins ==
    [bool |-> Bool(FALSE), list |-> [is |-> "list", of |-> <<>>]]

\* self._mapped_class(**kwargs): a dataclass takes exactly its fields, a
\* builtin class no keyword at all, an abstract class cannot be instantiated
Construct(cls, kwargs) ==
    IF cls \in DOMAIN Fields
    THEN IF DOMAIN kwargs = Fields[cls]
         THEN Returned([is |-> cls, of |-> <<kwargs>>])
         ELSE Raised("TypeError")
    ELSE IF cls \in DOMAIN Builtins /\ DOMAIN kwargs = {}
         THEN Returned(Builtins[cls])
    ELSE Raised("TypeError")

\* mutant: the single value mapper returns the first column of any row
SingleValueOfFirstColumn(row) ==
    IF row = <<>> THEN Raised("IndexError")
    ELSE Returned(Count(row[1]))

\* SingleValueRowMapper.__call__
SingleValueRowMapper(row) ==
    IF Len(row) > 1 THEN Raised("TooManyValuesError")
    ELSE IF row = <<>> THEN Raised("IndexError")
    ELSE Returned(Count(row[1]))

\* self._row_mapper(row, results.description): the four row mappers; a
\* column value is an integer
RowMapperCall(mapper, row_type, row, description) ==
    IF mapper = "tuple" THEN Returned([is |-> "tuple", of |-> row])
    ELSE IF mapper = "dict"
         THEN Returned([is |-> "dict", of |-> <<DictOf(row, description)>>])
    ELSE IF mapper = "single" THEN SingleValueRowMapper(row)
    ELSE Construct(row_type.name, DictOf(row, description))

\* the description of the cursors of the bound queries that are called: one
\* column
Description ==
    <<"a">>

\* self._row_mapper(row, results.description) in a bound query
Apply(f, row) ==
    RowMapperCall(f.mapper, f.row, row, Description)

RECURSIVE ListFrom(_, _, _)
\* [self._row_mapper(row, results.description) for row in ...]: the rows are
\* mapped in order, the first mapping that raises ends the comprehension
ListFrom(f, rows, done) ==
    IF rows = <<>> THEN Returned([is |-> "list", of |-> done])
    ELSE LET one == Apply(f, Head(rows))
         IN  IF one.error # "none" THEN one
             ELSE ListFrom(f, Tail(rows), Append(done, one.value))

\* BoundQuery._one_return / AsyncBoundQuery._async_one_return: rows is what
\* the cursor yields, rowcount what it reports
OneReturn(f, rows, rowcount) ==
    IF rowcount > 1 THEN Raised("TooManyRowsError")
    ELSE IF rows # <<>> THEN Apply(f, Head(rows))
    ELSE Returned(NoneValue)

\* BoundQuery._many_return: fetchall, each row mapped
ManyReturn(f, rows) ==
    ListFrom(f, rows, <<>>)

\* BoundQuery.__call__ / BoundExecution.__call__: what the call returns or
\* raises, given the cursor of its statement
CallResult(f, rows, rowcount) ==
    IF f.kind = "execute"
    THEN Returned(IF f.strategy = "none" THEN NoneValue ELSE Count(rowcount))
    ELSE IF f.strategy = "none" THEN Returned(NoneValue)
    ELSE IF f.strategy = "one" THEN OneReturn(f, rows, rowcount)
    ELSE ManyReturn(f, rows)

\* what a cursor reports as its row count when it holds n rows: the number
\* of rows, or -1 when the driver does not know it
Reported(n) ==
    {n, -1}

\* the callables that get decorated: every signature with a few return
\* annotations, and every return annotation with a one-parameter signature
Callables ==
    {PlainFn(sig, ret) : sig \in Signatures,
                         ret \in {Empty, Bare("int"), Bare("str"),
                                  Type("Union", <<Bare("int"), Bare("str")>>)}}
    \cup {PlainFn(<<"other">>, ret) : ret \in ReturnTypes}

\* no decorator has been applied yet
InitBind ==
    /\ mode \in {"sync", "async"}
    /\ started = {1}
    /\ cell = [u \in Units |-> NoCnx]
    /\ stack = [u \in Units |-> <<>>]
    /\ exc = [u \in Units |-> "none"]
    /\ conns = [c \in CnxIds |-> FreeConnection]
    /\ clock = 0
    /\ streams = [s \in Streams |-> NoStream]
    /\ txArg = Unbound
    /\ fn \in Callables
    /\ last = NoOutcome
    /\ template = NoTemplate
    /\ pool = Pool("pool1", mode = "async")
    /\ db = NoDatabase
    /\ runners = NoRunners

\* decorations are evaluated before the first call is made; the ones
\* followed here are those of a callable that is not bound yet and the first
\* one that comes after a bind
Decorating ==
    last.op = "none" \/ (last.op = "bind" /\ last.on = "plain")

\* a decoration: target "name" decorates what the name of the callable is
\* bound to (stacked decorators), target "original" decorates once more the
\* function object that was decorated first
Bind(by, target, paths) ==
    /\ Decorating
    /\ target = "original" => fn.kind # "plain"
    /\ by = "transaction" => paths = <<>>
    /\ LET func == IF target = "original" THEN PlainFn(fn.sig, fn.ret) ELSE fn
           out == Decorate(by, func, paths)
       IN  /\ fn' = IF out.error # "none" THEN fn
                     ELSE [func EXCEPT !.kind = KindOf(by, func.ret),
                                       !.strategy = out.strategy,
                                       !.mapper = out.mapper,
                                       !.row = out.row]
           /\ last' = [op |-> "bind", error |-> out.error, by |-> by,
                       target |-> target, on |-> fn.kind]
    /\ UNCHANGED <<db, runners, template, pool, mode, started, cell, stack, exc, conns, clock, streams, txArg>>

\* a call of a bound execute or query function whose statement finds n rows
\* (a query) or affects n rows (an execute)
Call(n, rowcount) ==
    /\ fn.kind \in {"execute", "query"}
    /\ LET out == CallResult(fn, CursorRows(n), rowcount)
       IN  last' = [op |-> "call", error |-> out.error, value |-> out.value,
                    rows |-> n, rowcount |-> rowcount]
    /\ UNCHANGED <<db, runners, template, pool, mode, started, cell, stack, exc, conns, clock, streams, txArg, fn>>

NextBind ==
    \/ \E by \in {"execute", "query", "transaction"}, target \in {"name", "original"},
          paths \in Templates : Bind(by, target, paths)
    \/ \E n \in 0..MaxRows : \E rowcount \in Reported(n) : Call(n, rowcount)

\* decorations of one callable and calls of the bound function
SpecBind == InitBind /\ [][NextBind]_vars

(* -------------------------- the row mappers --------------------------- *)

\* the row types a mapper is asked for
MappedTypes ==
    {Bare(n) : n \in NATIVE_SINGLE \cup {"bool", "Rec", "list", "tuple", "dict",
                                          "typing.Tuple", "typing.Dict",
                                          "typing.Mapping", "abc.Mapping",
                                          "Union"}}
    \cup ParameterizedTuples \cup ParameterizedMaps
    \cup {Type("Union", <<Bare("int"), Bare("str")>>),
          OptionalOf(Bare("int")), OptionalOf(Bare("Rec"))}

\* the rows a cursor yields and their descriptions: up to MaxCols columns
Rows ==
    UNION {[1..n -> 0..1] : n \in 0..MaxCols}

Descriptions(row) ==
    [DOMAIN row -> {"a", "b"}]

\* get_row_mapper(row_type) and, when it answers a mapper, the call of that
\* mapper on a row
GetAndMap(row_type, row, description) ==
    /\ LET mapper == GetRowMapper(row_type)
           out == IF mapper = "none" THEN Returned(NoneValue)
                  ELSE RowMapperCall(mapper, row_type, row, description)
       IN  last' = [op |-> "map", error |-> out.error, value |-> out.value,
                    type |-> row_type, mapper |-> mapper, row |-> row,
                    names |-> description]
    /\ UNCHANGED <<db, runners, template, pool, mode, started, cell, stack, exc, conns, clock, streams, txArg, fn>>

NextMappers ==
    \E row_type \in MappedTypes, row \in Rows :
        \E description \in Descriptions(row) : GetAndMap(row_type, row, description)

\* the row mapper registry and the mappers, on every row type and row
SpecMappers == Init /\ [][NextMappers]_vars

(* --------------------------- templates -------------------------------- *)

\* A SQL template is a string, modelled as the sequence of its characters.
\* The alphabet: the characters of the two openers and of the closer, the
\* dot of a path, two letters, a blank and a line break.
WHITE ==
    {" ", "\n"}

\* pyparsing.alphas and alphanums + "_", restricted to the alphabet
ALPHAS ==
    {"x", "y"}

ALPHANUMS ==
    ALPHAS

RECURSIVE Concat(_)
Concat(pieces) ==
    IF pieces = <<>> THEN <<>> ELSE Head(pieces) \o Concat(Tail(pieces))

\* the sources: concatenations of up to MaxPieces pieces, a piece being a
\* well-formed placeholder or a character sequence a placeholder is made of
Pieces ==
    {<<"#", "{", "x", "}">>, <<"!", "{", "x", "}">>, <<"#", "{", "y", "}">>,
     <<"!", "{", "y", "}">>, <<"#", "{", "x", ".", "y", "}">>,
     <<"#", "{">>, <<"!", "{">>, <<"}">>, <<"x">>, <<".">>, <<" ">>, <<"\n">>,
     <<"#">>, <<"{">>}

Sources ==
    {Concat(pieces) : pieces \in UNION {[1..n -> Pieces] : n \in 0..MaxPieces}}

\* pyparsing skips white space before every element of the grammar
RECURSIVE Skip(_, _)
Skip(s, i) ==
    IF i <= Len(s) /\ s[i] \in WHITE THEN Skip(s, i + 1) ELSE i

RECURSIVE WordEnd(_, _)
WordEnd(s, i) ==
    IF i <= Len(s) /\ s[i] \in ALPHANUMS THEN WordEnd(s, i + 1) ELSE i

\* IDENTIFIER at position i (no white space is skipped here, the caller did):
\* the position after the word, or 0 when no word starts at i
IDENTIFIER(s, i) ==
    IF i <= Len(s) /\ s[i] \in ALPHAS THEN WordEnd(s, i + 1) ELSE 0

\* OPENS matches at position i
OPENS(s, i) ==
    i + 1 <= Len(s) /\ s[i] \in {"#", "!"} /\ s[i + 1] = "{"

\* ZeroOrMore(Suppress(".") + IDENTIFIER) after an identifier that ends
\* before position e: a dot that no identifier follows is not consumed
RECURSIVE REPLACEMENT(_, _, _)
REPLACEMENT(s, e, path) ==
    LET d == Skip(s, e)
        k == Skip(s, d + 1)
        e2 == IDENTIFIER(s, k)
    IN  IF d <= Len(s) /\ s[d] = "." /\ e2 # 0
        THEN REPLACEMENT(s, e2, Append(path, SubSeq(s, k, e2 - 1)))
        ELSE [end |-> e, path |-> path]

\* LOOKUP at an opener that starts at position i: the placeholder's path and
\* the position after its closer, or the position at which it failed
LOOKUP(s, i) ==
    LET j == Skip(s, i + 2)
        e == IDENTIFIER(s, j)
        r == REPLACEMENT(s, e, <<SubSeq(s, j, e - 1)>>)
        c == Skip(s, r.end)
    IN  IF e = 0 THEN [ok |-> FALSE, end |-> 0, path |-> <<>>, loc |-> j]
        ELSE IF c <= Len(s) /\ s[c] = "}"
        THEN [ok |-> TRUE, end |-> c + 1, path |-> r.path, loc |-> 0]
        ELSE [ok |-> FALSE, end |-> 0, path |-> <<>>, loc |-> c]

\* the nodes the grammar yields: strings and groups (a type marker and a path)
TextNode(text) ==
    [is |-> "str", text |-> text, path |-> <<>>, is_replace |-> FALSE]

Group(opener, path) ==
    [is |-> "group", text |-> <<>>, path |-> path,
     is_replace |-> opener = "!"]

ParseResults(nodes) ==
    [error |-> "none", loc |-> 0, nodes |-> nodes]

ParseException(loc) ==
    [error |-> "ParseException", loc |-> loc, nodes |-> <<>>]

\* GRAMMAR.parseString(s, parseAll=True) from position i on.  A lone "#",
\* "!", "{" or "}" is text; an opener must start a well-formed placeholder.
\* The exception carries the position of the failure that got furthest when
\* no element has matched yet, and the position at which the end of the text
\* was expected otherwise.
RECURSIVE GRAMMAR(_, _, _, _)
GRAMMAR(s, i, nodes, matched) ==
    LET j == Skip(s, i)
        spaced == IF j > i THEN Append(nodes, TextNode(SubSeq(s, i, j - 1)))
                  ELSE nodes
        look == LOOKUP(s, j)
    IN  IF j > Len(s)
        THEN IF matched THEN ParseResults(spaced) ELSE ParseException(j)
        ELSE IF OPENS(s, j)
        THEN IF look.ok
             THEN GRAMMAR(s, look.end, Append(spaced, Group(s[j], look.path)),
                          TRUE)
             ELSE ParseException(IF matched THEN j ELSE look.loc)
        ELSE GRAMMAR(s, j + 1, Append(nodes, TextNode(SubSeq(s, i, j))), TRUE)

\* pyparsing.line(loc, s) and pyparsing.col(loc, s), loc being the position
\* before character p
LastBreak(s, p) ==
    LET breaks == {k \in 1..(p - 1) : k <= Len(s) /\ s[k] = "\n"}
    IN  IF breaks = {} THEN 0 ELSE CHOOSE k \in breaks : \A m \in breaks : m <= k

NextBreak(s, p) ==
    LET breaks == {k \in p..Len(s) : s[k] = "\n"}
    IN  IF breaks = {} THEN Len(s) + 1
        ELSE CHOOSE k \in breaks : \A m \in breaks : k <= m

\* the first line of the source, wherever the location is
FirstLine(s, p) ==
    SubSeq(s, 1, NextBreak(s, 1) - 1)

Line(s, p) ==
    SubSeq(s, LastBreak(s, p) + 1, NextBreak(s, p) - 1)

Col(s, p) ==
    p - LastBreak(s, p)

\* a loop that lists a path once, where it appears first
RECURSIVE FoldNodesDistinct(_, _, _)
FoldNodesDistinct(nodes, parsed, arguments) ==
    IF nodes = <<>> THEN [parsed |-> parsed, arguments |-> arguments]
    ELSE LET node == Head(nodes)
             n == Len(parsed)
             seen == \E k \in DOMAIN arguments : arguments[k] = node.path
         IN  IF node.is = "group"
             THEN FoldNodesDistinct(Tail(nodes), Append(parsed, node),
                                    IF seen THEN arguments
                                    ELSE Append(arguments, node.path))
             ELSE IF n > 0 /\ parsed[n].is = "str"
             THEN FoldNodesDistinct(Tail(nodes),
                                    [parsed EXCEPT ![n].text = @ \o node.text],
                                    arguments)
             ELSE FoldNodesDistinct(Tail(nodes), Append(parsed, node),
                                    arguments)

\* the loop of Template.__init__ over the nodes: a group becomes an argument
\* and a TemplateParameter, a string is joined to the string before it
RECURSIVE FoldNodes(_, _, _)
FoldNodes(nodes, parsed, arguments) ==
    IF nodes = <<>> THEN [parsed |-> parsed, arguments |-> arguments]
    ELSE LET node == Head(nodes)
             n == Len(parsed)
         IN  IF node.is = "group"
             THEN FoldNodes(Tail(nodes), Append(parsed, node),
                            Append(arguments, node.path))
             ELSE IF n > 0 /\ parsed[n].is = "str"
             THEN FoldNodes(Tail(nodes),
                            [parsed EXCEPT ![n].text = @ \o node.text],
                            arguments)
             ELSE FoldNodes(Tail(nodes), Append(parsed, node), arguments)

\* Template(sql_template): the object, or the TemplateError whose message
\* shows a line of the source and a marker under one of its columns
TemplateInit(sql_template) ==
    LET nodes == GRAMMAR(sql_template, 1, <<>>, FALSE)
        folded == FoldNodes(nodes.nodes, <<>>, <<>>)
    IN  IF nodes.error # "none"
        THEN [error |-> "TemplateError",
              line |-> Line(sql_template, nodes.loc),
              col |-> Col(sql_template, nodes.loc),
              source |-> sql_template, parsed |-> <<>>, arguments |-> <<>>]
        ELSE [error |-> "none", line |-> <<>>, col |-> 0,
              source |-> sql_template, parsed |-> folded.parsed,
              arguments |-> folded.arguments]

\* the values of the arguments: integers, strings, dictionaries, objects
\* and mappings that are not dictionaries.  The items of a container are
\* named by identifiers; each one is the sequence of the values successive
\* reads return, one value for an item or a plain attribute and several for
\* a computed property
Text(chars) ==
    [is |-> "str", of |-> chars]

Dict(items) ==
    [is |-> "dict", of |-> <<items>>]

Object(attributes) ==
    [is |-> "object", of |-> <<attributes>>]

MappingProxy(items) ==
    [is |-> "mappingproxy", of |-> <<items>>]

NoItems ==
    [name \in {} |-> <<>>]

Item(name, value) ==
    name :> <<value>>

Property(name, values) ==
    name :> values

\* bool(value)
Truthy(value) ==
    IF value.is = "int" THEN value.of[1] # 0
    ELSE IF value.is = "str" THEN value.of # <<>>
    ELSE IF value.is \in {"dict", "mappingproxy"}
    THEN DOMAIN value.of[1] # {}
    ELSE value.is # "none"

Digits ==
    <<"0", "1", "2", "3", "4", "5", "6", "7", "8", "9">>

\* repr(value) of an integer and of a string
Repr(value) ==
    IF value.is = "int" THEN <<Digits[value.of[1] + 1]>>
    ELSE IF value.is = "str" THEN <<"'">> \o value.of \o <<"'">>
    ELSE <<"<", value.is, ">">>

\* repr of the items of a dictionary: 'name': value, separated by commas
RECURSIVE ReprItems(_, _)
ReprItems(items, names) ==
    IF names = {} THEN <<>>
    ELSE LET name == CHOOSE n \in names : TRUE
             rest == ReprItems(items, names \ {name})
         IN  <<"'">> \o name \o <<"'", ":", " ">> \o Repr(items[name][1])
             \o (IF rest = <<>> THEN <<>> ELSE <<",", " ">> \o rest)

\* str(value): the digits of an integer, the string itself, the items of a
\* dictionary or of a mapping proxy between braces; the default form of an
\* object shows its class
StrOf(value) ==
    IF value.is = "int" THEN Repr(value)
    ELSE IF value.is = "str" THEN value.of
    ELSE IF value.is \in {"dict", "mappingproxy"}
    THEN <<"{">> \o ReprItems(value.of[1], DOMAIN value.of[1]) \o <<"}">>
    ELSE <<"<", value.is, ">">>

\* the keyword arguments render is given: x and y are the roots of the
\* paths of the templates
Arguments ==
    {\* two scalars, the second one falsy
     Item(<<"x">>, Count(1)) @@ Item(<<"y">>, Count(0)),
     \* a dictionary with the key y, and a string that reads as a placeholder
     Item(<<"x">>, Dict(Item(<<"y">>, Count(2))))
         @@ Item(<<"y">>, Text(<<"#", "{", "x", "}">>)),
     \* an object whose property y computes 0, then 1, then 2
     Item(<<"x">>, Object(Property(<<"y">>, <<Count(0), Count(1), Count(2)>>)))
         @@ Item(<<"y">>, Text(<<>>)),
     \* an object whose property y computes 1, then 2: y is not an argument
     Item(<<"x">>, Object(Property(<<"y">>, <<Count(1), Count(2)>>))),
     \* an empty dictionary, and a string that starts with a brace
     Item(<<"x">>, Dict(NoItems)) @@ Item(<<"y">>, Text(<<"{", "x">>)),
     \* a mapping that is not a dictionary, with the key y
     Item(<<"x">>, MappingProxy(Item(<<"y">>, Count(2))))
         @@ Item(<<"y">>, Count(3))}

\* what render is given as mung_symbol: a string, or a provider whose calls
\* return the symbols
StaticMungSymbolProvider(symbol) ==
    [is |-> "StaticMungSymbolProvider", of |-> symbol]

NumberedMungSymbolProvider ==
    [is |-> "NumberedMungSymbolProvider", of |-> <<"$">>]

MungSymbols ==
    {Text(<<"?">>), StaticMungSymbolProvider(<<"?">>),
     NumberedMungSymbolProvider}

\* the n-th call of a provider
ProviderCall(provider, n) ==
    IF provider.is = "NumberedMungSymbolProvider"
    THEN provider.of \o <<Digits[n + 1]>>
    ELSE provider.of

\* the number of reads made so far of the member a path leads to
ReadsOf(reads, path) ==
    IF path \in DOMAIN reads THEN reads[path] ELSE 0

Min(a, b) ==
    IF a < b THEN a ELSE b

\* Template._resolve_value from the k-th segment on: node[arg_name] when the
\* node is a dict and getattr(node, arg_name) otherwise; a missing key is a
\* KeyError and a missing attribute an AttributeError.  reads counts the reads
\* of every member.
RECURSIVE ResolveFrom(_, _, _, _)
ResolveFrom(kwarg_path, k, node, reads) ==
    IF k > Len(kwarg_path)
    THEN [error |-> "none", value |-> node, reads |-> reads]
    ELSE LET arg_name == kwarg_path[k]
             prefix == SubSeq(kwarg_path, 1, k)
             n == ReadsOf(reads, prefix) + 1
             is_dict == node.is = "dict"
             members == IF node.is \in {"dict", "object"} THEN node.of[1]
                        ELSE NoItems
             values == members[arg_name]
         IN  IF arg_name \notin DOMAIN members
             THEN [error |-> IF is_dict THEN "KeyError" ELSE "AttributeError",
                   value |-> NoneValue, reads |-> reads]
             ELSE ResolveFrom(kwarg_path, k + 1, values[Min(n, Len(values))],
                              (prefix :> n) @@ reads)

ResolveValue(kwarg_path, root_args, reads) ==
    ResolveFrom(kwarg_path, 1, Dict(root_args), reads)

\* what render has built before a fragment: the SQL, the parameters, the
\* cache of resolved paths, and what it did to the arguments and the symbol:
\* the reads of every member, the value every placeholder used, the number
\* of calls of the provider
Rendering ==
    [error |-> "none", munged |-> <<>>, parameters |-> <<>>,
     cache |-> [path \in {} |-> NoneValue], reads |-> [path \in {} |-> 0],
     used |-> <<>>, calls |-> 0]

\* cache.get(path) or self._resolve_value(path, kwargs): a path is resolved
\* when the cache has no value for it and when the value it has is falsy
CachedOrResolved(r, kwarg_path, kwargs) ==
    IF kwarg_path \in DOMAIN r.cache /\ Truthy(r.cache[kwarg_path])
    THEN [error |-> "none", value |-> r.cache[kwarg_path], reads |-> r.reads]
    ELSE ResolveValue(kwarg_path, kwargs, r.reads)

\* a render that gives a path it has seen before no new parameter
RenderFragmentOncePerPath(r, frag, mung_symbol, kwargs) ==
    LET got == CachedOrResolved(r, frag.path, kwargs)
        seen == frag.path \in DOMAIN r.cache
        cached == [r EXCEPT !.cache = (frag.path :> got.value) @@ @,
                            !.reads = got.reads,
                            !.used = Append(@, got.value)]
    IN  IF frag.is = "str" THEN [r EXCEPT !.munged = @ \o frag.text]
        ELSE IF got.error # "none"
        THEN [r EXCEPT !.error = got.error, !.reads = got.reads]
        ELSE IF frag.is_replace
        THEN [cached EXCEPT !.munged = @ \o StrOf(got.value)]
        ELSE IF mung_symbol.is # "str"
        THEN [cached EXCEPT !.error = "TypeError"]
        ELSE [cached EXCEPT !.munged = @ \o mung_symbol.of,
                            !.parameters = IF seen THEN @
                                           ELSE Append(@, got.value)]

\* a render that binds the value of a !{...} occurrence as a parameter too
RenderFragmentBindingAll(r, frag, mung_symbol, kwargs) ==
    LET got == CachedOrResolved(r, frag.path, kwargs)
        cached == [r EXCEPT !.cache = (frag.path :> got.value) @@ @,
                            !.reads = got.reads,
                            !.used = Append(@, got.value)]
    IN  IF frag.is = "str" THEN [r EXCEPT !.munged = @ \o frag.text]
        ELSE IF got.error # "none"
        THEN [r EXCEPT !.error = got.error, !.reads = got.reads]
        ELSE IF frag.is_replace
        THEN [cached EXCEPT !.munged = @ \o StrOf(got.value),
                            !.parameters = Append(@, got.value)]
        ELSE IF mung_symbol.is # "str"
        THEN [cached EXCEPT !.error = "TypeError"]
        ELSE [cached EXCEPT !.munged = @ \o mung_symbol.of,
                            !.parameters = Append(@, got.value)]

\* the body of the loop of render for one fragment.  munged += frag, munged
\* being a str, is a TypeError when frag is not a str: the symbol is used as
\* it is given and never called
RenderFragment(r, frag, mung_symbol, kwargs) ==
    LET got == CachedOrResolved(r, frag.path, kwargs)
        cached == [r EXCEPT !.cache = (frag.path :> got.value) @@ @,
                            !.reads = got.reads,
                            !.used = Append(@, got.value)]
    IN  IF frag.is = "str" THEN [r EXCEPT !.munged = @ \o frag.text]
        ELSE IF got.error # "none"
        THEN [r EXCEPT !.error = got.error, !.reads = got.reads]
        ELSE IF frag.is_replace
        THEN [cached EXCEPT !.munged = @ \o StrOf(got.value)]
        ELSE IF mung_symbol.is # "str"
        THEN [cached EXCEPT !.error = "TypeError",
                            !.parameters = Append(@, got.value)]
        ELSE [cached EXCEPT !.munged = @ \o mung_symbol.of,
                            !.parameters = Append(@, got.value)]

\* Template.render: the fragments from left to right, up to the first one
\* that raises
RECURSIVE RenderFrom(_, _, _, _)
RenderFrom(r, frags, mung_symbol, kwargs) ==
    IF frags = <<>> \/ r.error # "none" THEN r
    ELSE RenderFrom(RenderFragment(r, Head(frags), mung_symbol, kwargs),
                    Tail(frags), mung_symbol, kwargs)

\* Template(sql_template): the construction of one template is followed
NewTemplate(sql_template) ==
    /\ template = NoTemplate
    /\ last = NoOutcome
    /\ LET new == TemplateInit(sql_template)
       IN  /\ template' = IF new.error = "none" THEN new ELSE template
           /\ last' = [op |-> "template", error |-> new.error,
                       line |-> new.line, col |-> new.col,
                       source |-> sql_template]
    /\ UNCHANGED <<db, runners, pool, mode, started, cell, stack, exc, conns, clock, streams, txArg, fn>>

\* template.render(mung_symbol, kwargs); a render leaves the template as it
\* is, so the first render of every template is the one that is followed
Render(mung_symbol, kwargs) ==
    /\ template # NoTemplate
    /\ last.op = "template"
    /\ LET r == RenderFrom(Rendering, template.parsed, mung_symbol, kwargs)
       IN  last' = [op |-> "render", error |-> r.error, sql |-> r.munged,
                    parameters |-> r.parameters, reads |-> r.reads,
                    used |-> r.used, calls |-> r.calls,
                    symbol |-> mung_symbol, kwargs |-> kwargs]
    /\ UNCHANGED <<db, runners, template, pool, mode, started, cell, stack, exc, conns, clock, streams, txArg, fn>>

\* the parameters of the callables that are bound to a template: the i-th
\* parameter (see Signatures) has the i-th of these names
ParameterNames ==
    <<<<"x">>, <<"y">>>>

\* a path of a template as a path over the parameters (see Paths): its first
\* segment is the parameter it names, or no parameter of any callable
ParameterPath(path) ==
    LET named == {i \in DOMAIN ParameterNames : ParameterNames[i] = path[1]}
    IN  <<IF named = {} THEN MaxParams + 1 ELSE CHOOSE i \in named : TRUE>>

ParameterPaths(arguments) ==
    [k \in DOMAIN arguments |-> ParameterPath(arguments[k])]

\* decorated(func) of binder.execute(sql) and binder.query(sql): the check
\* for a bound function, then _make_template(sql), then the construction of
\* the bound function
DecoratedSQL(by, sql_template, func) ==
    LET made == TemplateInit(sql_template)
    IN  IF AlreadyBound(func)
        THEN [bind |-> Failed("FunctionAlreadyBoundError"), made |-> NoTemplate]
        ELSE IF made.error # "none"
        THEN [bind |-> Failed(made.error), made |-> made]
        ELSE [bind |-> Decorate(by, func, ParameterPaths(made.arguments)),
              made |-> made]

\* @binder.execute(sql_template) or @binder.query(sql_template) on func
BindSQL(by, sql_template, func) ==
    /\ template = NoTemplate
    /\ last = NoOutcome
    /\ \E out \in {DecoratedSQL(by, sql_template, func)} :
           /\ fn' = IF out.bind.error # "none" THEN func
                     ELSE [func EXCEPT !.kind = KindOf(by, func.ret),
                                       !.strategy = out.bind.strategy,
                                       !.mapper = out.bind.mapper,
                                       !.row = out.bind.row]
           /\ template' = IF out.bind.error # "none" THEN template
                          ELSE out.made
           /\ last' = [op |-> "bind", error |-> out.bind.error, by |-> by,
                       target |-> "name", on |-> func.kind,
                       line |-> out.made.line, col |-> out.made.col,
                       source |-> sql_template]
    /\ UNCHANGED <<db, runners, pool, mode, started, cell, stack, exc, conns, clock, streams, txArg>>

\* the callables that are bound to the templates: two parameters, x and y,
\* and no return annotation
TemplateCallables ==
    {PlainFn(<<"other", "other">>, Empty)}

\* a source is drawn where a template can still be made of it
NextTemplates ==
    \/ /\ last = NoOutcome
       /\ \E sql_template \in Sources : NewTemplate(sql_template)
    \/ /\ last = NoOutcome
       /\ \E by \in {"execute", "query"}, sql_template \in Sources,
             func \in TemplateCallables : BindSQL(by, sql_template, func)
    \/ /\ last.op = "template"
       /\ \E mung_symbol \in MungSymbols, kwargs \in Arguments :
              Render(mung_symbol, kwargs)

\* the templates: every source is parsed, or bound to a callable, and every
\* template that parses is rendered with every symbol and every set of
\* arguments
SpecTemplates == Init /\ [][NextTemplates]_vars

(* ----------------------------- migrations ------------------------------- *)

\* the upgrade() calls that are followed, and the scripts of the directory
Runners ==
    1..MaxRunners

\* ScriptDiscovery.discover: the scripts sorted by name
Scripts ==
    [i \in 1..MaxScripts |-> i]

\* the only row of dinao_migration_state (id = 1), and its absence
NoRow ==
    [status |-> "none", target_revision |-> 0, applied_count |-> 0]

StateRow(status, target_revision, applied_count) ==
    [status |-> status, target_revision |-> target_revision,
     applied_count |-> applied_count]

\* a row of dinao_migration_revisions; by is the runner that inserted it
Revision(revision_name, status, by) ==
    [revision_name |-> revision_name, status |-> status, by |-> by]

\* the database of a URL: its dialect and the mung symbol of its pools, the
\* tracking tables, and the committed statements of the scripts
Database(backend, mung_symbol) ==
    [backend |-> backend, mung_symbol |-> mung_symbol, tables |-> FALSE,
     state |-> NoRow, revisions |-> <<>>, applied |-> <<>>]

\* the pools of create_connection_pool: a str symbol, or a provider
Databases ==
    {Database("sqlite3", Text(<<"?">>)),
     Database("sqlite3", StaticMungSymbolProvider(<<"?">>)),
     Database("postgresql", Text(<<"?">>)),
     Database("postgresql", NumberedMungSymbolProvider)}

\* a runner before upgrade(): pending and at are the list of
\* _apply_pending_scripts and the position of its loop, open the statements
\* of the connection that are not committed, completed the scripts whose
\* upgrade function returned, affected what the acquire-lock statement
\* reported (-1 before it ran)
NewRunner ==
    [pc |-> "upgrade", pending |-> <<>>, at |-> 1, applied_count |-> 0,
     open |-> <<>>, completed |-> <<>>, affected |-> -1, locked |-> FALSE,
     error |-> "none"]

\* template.render(pool.mung_symbol, kwargs) of a statement of the schema
\* provider: every one of them has a #{...} placeholder
StatementRender(mung_symbol) ==
    RenderFrom(Rendering, TemplateInit(<<"#", "{", "x", "}">>).parsed,
               mung_symbol, Item(<<"x">>, Count(1)))

\* upgrade() up to _create_tables: the pool, the lease, and the two
\* CREATE TABLE IF NOT EXISTS statements
Upgrade(r) ==
    /\ runners[r].pc = "upgrade"
    /\ db' = [db EXCEPT !.tables = TRUE]
    /\ runners' = [runners EXCEPT ![r].pc = "get_applied_revisions"]
    /\ UNCHANGED <<template, pool, mode, started, cell, stack, exc, conns, clock, streams, txArg, fn, last>>

\* the names of the revisions select_applied_revisions returns
AppliedRevisions ==
    {db.revisions[k].revision_name :
        k \in {j \in DOMAIN db.revisions : db.revisions[j].status = "success"}}

\* MigrationRunnerBase._compute_pending from the k-th script on
RECURSIVE ComputePending(_, _, _)
ComputePending(scripts, applied, k) ==
    IF k > Len(scripts) THEN <<>>
    ELSE (IF scripts[k] \in applied THEN <<>> ELSE <<scripts[k]>>)
         \o ComputePending(scripts, applied, k + 1)

\* upgrade() ends: the finally clause releases the connection
Ended(runner, error) ==
    [runner EXCEPT !.pc = "done", !.error = error]

\* discover, _get_applied_revisions and _compute_pending of _run_upgrade
GetAppliedRevisions(r) ==
    /\ runners[r].pc = "get_applied_revisions"
    /\ LET pending == ComputePending(Scripts, AppliedRevisions, 1)
       IN  runners' = [runners EXCEPT ![r] =
               IF pending = <<>> THEN Ended(@, "none")
               ELSE [@ EXCEPT !.pc = "delete_completed_state",
                              !.pending = pending]]
    /\ UNCHANGED <<db, template, pool, mode, started, cell, stack, exc, conns, clock, streams, txArg, fn, last>>

\* the first statement of _acquire_migration_lock: DELETE ... WHERE status
\* != 'in_progress', committed
DeleteCompletedState(r) ==
    /\ runners[r].pc = "delete_completed_state"
    /\ db' = [db EXCEPT !.state = IF @.status = "in_progress" THEN @
                                  ELSE NoRow]
    /\ runners' = [runners EXCEPT ![r].pc = "acquire_lock"]
    /\ UNCHANGED <<template, pool, mode, started, cell, stack, exc, conns, clock, streams, txArg, fn, last>>

\* an acquire-lock statement that inserts its row whatever row there is
AcquireLockUnconditional(r) ==
    /\ runners[r].pc = "acquire_lock"
    /\ db' = [db EXCEPT !.state =
                 StateRow("in_progress",
                          runners[r].pending[Len(runners[r].pending)], 0)]
    /\ runners' = [runners EXCEPT ![r].pc = "apply_single_script",
                                  ![r].affected = 1, ![r].locked = TRUE]
    /\ UNCHANGED <<template, pool, mode, started, cell, stack, exc, conns, clock, streams, txArg, fn, last>>

\* the rest of _acquire_migration_lock: the render, then INSERT ... SELECT
\* 1, 'in_progress', target WHERE NOT EXISTS (an in_progress row),
\* committed.  A row that is not in progress conflicts on id = 1: INSERT OR
\* IGNORE (sqlite) inserts nothing, the other dialects raise.
AcquireLock(r) ==
    /\ runners[r].pc = "acquire_lock"
    /\ LET rendered == StatementRender(db.mung_symbol)
           target == runners[r].pending[Len(runners[r].pending)]
       IN  IF rendered.error # "none"
           THEN /\ runners' = [runners EXCEPT ![r] = Ended(@, rendered.error)]
                /\ UNCHANGED db
           ELSE IF db.state.status = "none"
           THEN /\ db' = [db EXCEPT !.state =
                              StateRow("in_progress", target, 0)]
                /\ runners' = [runners EXCEPT
                                  ![r].pc = "apply_single_script",
                                  ![r].affected = 1, ![r].locked = TRUE]
           ELSE IF db.state.status = "in_progress" \/ db.backend = "sqlite3"
           THEN /\ runners' = [runners EXCEPT ![r] =
                       Ended([@ EXCEPT !.affected = 0],
                             "MigrationInProgressError")]
                /\ UNCHANGED db
           ELSE /\ runners' = [runners EXCEPT ![r] =
                       Ended(@, "IntegrityError")]
                /\ UNCHANGED db
    /\ UNCHANGED <<template, pool, mode, started, cell, stack, exc, conns, clock, streams, txArg, fn, last>>

\* _apply_single_script up to the return of module.upgrade: autocommit off,
\* the module loaded and validated, and upgrade(migration_cnx), whose
\* statements are executed with commit=False.  The script returns or raises
\* (so do the load and the validation), after n statements.
ApplySingleScript(r, returns, n) ==
    /\ runners[r].pc = "apply_single_script"
    /\ LET script == runners[r].pending[runners[r].at]
       IN  runners' = [runners EXCEPT
               ![r].open = [k \in 1..n |-> script],
               ![r].completed = IF returns THEN Append(@, script) ELSE @,
               ![r].pc = IF returns THEN "insert_revision"
                         ELSE "handle_script_error"]
    /\ UNCHANGED <<db, template, pool, mode, started, cell, stack, exc, conns, clock, streams, txArg, fn, last>>

\* a runner that records a failed script and leaves the state row as it is
HandleScriptErrorNoState(r) ==
    /\ runners[r].pc = "handle_script_error"
    /\ LET script == runners[r].pending[runners[r].at]
       IN  db' = [db EXCEPT !.revisions =
                      Append(@, Revision(script, "error", r))]
    /\ runners' = [runners EXCEPT ![r] =
           Ended([@ EXCEPT !.open = <<>>], "RevisionError")]
    /\ UNCHANGED <<template, pool, mode, started, cell, stack, exc, conns, clock, streams, txArg, fn, last>>

\* the rest of _apply_single_script: the 'success' revision, executed with
\* commit=True, which commits the statements of the script with it; then the
\* next script of the loop
InsertRevision(r) ==
    /\ runners[r].pc = "insert_revision"
    /\ LET script == runners[r].pending[runners[r].at]
       IN  db' = [db EXCEPT
               !.revisions = Append(@, Revision(script, "success", r)),
               !.applied = @ \o runners[r].open]
    /\ runners' = [runners EXCEPT
           ![r].open = <<>>,
           ![r].applied_count = @ + 1,
           ![r].at = @ + 1,
           ![r].pc = IF runners[r].at = Len(runners[r].pending)
                     THEN "update_state_success"
                     ELSE "apply_single_script"]
    /\ UNCHANGED <<template, pool, mode, started, cell, stack, exc, conns, clock, streams, txArg, fn, last>>

\* UPDATE dinao_migration_state SET ... WHERE id = 1
UpdateState(row, status, applied_count) ==
    IF row.status = "none" THEN row
    ELSE StateRow(status, row.target_revision, applied_count)

\* _handle_script_error and the raise of RevisionError: the rollback, the
\* 'error' revision and the state row, both committed
HandleScriptError(r) ==
    /\ runners[r].pc = "handle_script_error"
    /\ LET script == runners[r].pending[runners[r].at]
       IN  db' = [db EXCEPT
               !.revisions = Append(@, Revision(script, "error", r)),
               !.state = UpdateState(@, "error", @.applied_count)]
    /\ runners' = [runners EXCEPT ![r] =
           Ended([@ EXCEPT !.open = <<>>], "RevisionError")]
    /\ UNCHANGED <<template, pool, mode, started, cell, stack, exc, conns, clock, streams, txArg, fn, last>>

\* _update_state_success after the loop, and the end of upgrade()
UpdateStateSuccess(r) ==
    /\ runners[r].pc = "update_state_success"
    /\ db' = [db EXCEPT !.state =
                 UpdateState(@, "success", runners[r].applied_count)]
    /\ runners' = [runners EXCEPT ![r] = Ended(@, "none")]
    /\ UNCHANGED <<template, pool, mode, started, cell, stack, exc, conns, clock, streams, txArg, fn, last>>

InitMigration ==
    /\ mode \in {"sync", "async"}
    /\ started = {1}
    /\ cell = [u \in Units |-> NoCnx]
    /\ stack = [u \in Units |-> <<>>]
    /\ exc = [u \in Units |-> "none"]
    /\ conns = [c \in CnxIds |-> FreeConnection]
    /\ clock = 0
    /\ streams = [s \in Streams |-> NoStream]
    /\ txArg = Unbound
    /\ fn = PlainFn(<<>>, Empty)
    /\ last = NoOutcome
    /\ template = NoTemplate
    /\ pool = Pool("pool1", mode = "async")
    /\ db \in Databases
    /\ runners = [r \in Runners |-> NewRunner]

NextMigration ==
    \E r \in Runners :
        \/ Upgrade(r)
        \/ GetAppliedRevisions(r)
        \/ DeleteCompletedState(r)
        \/ AcquireLock(r)
        \/ \E returns \in BOOLEAN, n \in 0..MaxStmts :
               ApplySingleScript(r, returns, n)
        \/ InsertRevision(r)
        \/ HandleScriptError(r)
        \/ UpdateStateSuccess(r)

\* the migrations: MaxRunners upgrade() calls, in any interleaving of their
\* statements, over one database and one script directory
SpecMigration == InitMigration /\ [][NextMigration]_vars

(* ------------------- vocabulary of the properties --------------------- *)

Live(c) ==
    c # NoCnx /\ conns[c].st = "leased"

\* commit calls made by the scope exit (all commit calls but those that
\* Connection.execute made itself)
ScopeCommits(conn) ==
    conn.commits - conn.auto

OpenStreams(u) ==
    {s \in Streams : streams[s].st = "open" /\ streams[s].owner = u}

\* the scope entries of u that are in progress: open blocks and transaction
\* calls, and suspended generating queries
Entries(u) ==
    {[cnx |-> stack[u][i].cnx, leased |-> stack[u][i].leased] : i \in DOMAIN stack[u]}
    \cup {[cnx |-> streams[s].cnx, leased |-> streams[s].leased] : s \in OpenStreams(u)}

\* this step leases c: a connection object that was not leased and that
\* nothing referred to changes
LeasedInStep(c) ==
    /\ conns[c].st # "leased"
    /\ ~Referenced(c)
    /\ conns'[c] # conns[c]

\* the connection object c as this step found it
Before(c) ==
    IF LeasedInStep(c) THEN NewConnection ELSE conns[c]

\* this step leaves the entry that leased c: a block or transaction call is
\* left, a generating query ends, or a bound call leased and finished at once
ExitOfLeasingEntry(c) ==
    \/ \E u \in Units : /\ stack[u] # <<>>
                        /\ stack'[u] = Pop(u)
                        /\ Top(u).leased
                        /\ Top(u).cnx = c
    \/ \E s \in Streams : /\ streams[s].st = "open"
                          /\ streams[s].leased
                          /\ streams[s].cnx = c
                          /\ streams'[s].st # "open"
    \/ LeasedInStep(c) /\ conns'[c].st = "released"

\* this step leaves an entry of u that did not lease
ExitOfNestedEntry(u) ==
    \/ /\ stack[u] # <<>>
       /\ stack'[u] = Pop(u)
       /\ ~Top(u).leased
    \/ \E s \in OpenStreams(u) : ~streams[s].leased /\ streams'[s].st # "open"

DeltaScopeCommits(c) ==
    ScopeCommits(conns'[c]) - ScopeCommits(Before(c))

DeltaRollbacks(c) ==
    conns'[c].rollbacks - Before(c).rollbacks

DeltaReleases(c) ==
    conns'[c].releases - Before(c).releases

(* ------------------------------ C1 ------------------------------------ *)

\* in every unit the entries in progress above the one that leased hold its
\* connection and did not lease; the entries and suspended generating queries
\* of a unit that hold a leased connection hold the same one; the entry that
\* leased holds the connection in the unit's cell
OneLeasePerNest ==
    \A u \in Units :
        /\ \A i, j \in DOMAIN stack[u] :
               (stack[u][i].leased /\ j > i)
                   => (stack[u][j].cnx = stack[u][i].cnx /\ ~stack[u][j].leased)
        /\ \A e1, e2 \in Entries(u) :
               (Live(e1.cnx) /\ Live(e2.cnx)) => e1.cnx = e2.cnx
        /\ Cardinality({e \in Entries(u) : e.leased}) <= 1
        /\ \A e \in Entries(u) : e.leased => (Live(e.cnx) /\ cell[u] = e.cnx)

\* C1: in one unit, while the entry that leased a connection is in progress,
\* every entry nested in it - block or transaction call, at any depth - holds
\* that very connection and none of them leased; every statement of a bound
\* execute/query call or issued directly inside the nest runs on that
\* connection; and no step of the unit leases until the nest is left: one
\* lease for the whole nest.
C1_NestSharesOneLease ==
    [][/\ OneLeasePerNest
       /\ OneLeasePerNest'
       /\ \A u \in Units : \A i \in DOMAIN stack[u] :
              (stack[u][i].leased /\ started = {u}) =>
                  LET c == stack[u][i].cnx
                  IN  /\ \A d \in CnxIds : ~LeasedInStep(d)
                      /\ clock' = clock + 1
                             => conns'[c].log = Append(conns[c].log, clock + 1)]_vars

\* a transaction call nested in a block that leased, after a nested bound call
\* ran on the shared connection
C1_Witness ==
    /\ Len(stack[1]) = 2
    /\ stack[1][1].leased
    /\ stack[1][2].kind = "tx"
    /\ stack[1][2].cnx = stack[1][1].cnx
    /\ conns[stack[1][1].cnx].log # <<>>
    /\ conns[2].st = "free"

(* ------------------------------ C2 ------------------------------------ *)

\* this step pops the frame of u that leased c
FrameExit(u, c) ==
    /\ stack[u] # <<>>
    /\ stack'[u] = Pop(u)
    /\ Top(u).leased
    /\ Top(u).cnx = c

\* this step makes a scope commit, a rollback or a release on c, or takes c
\* out of a cell
ScopeEffect(c) ==
    \/ DeltaScopeCommits(c) # 0
    \/ DeltaRollbacks(c) # 0
    \/ DeltaReleases(c) # 0
    \/ \E u \in Units : cell[u] = c /\ cell'[u] # c

TxExitRaising(u) ==
    /\ stack[u] # <<>>
    /\ stack'[u] = Pop(u)
    /\ Top(u).kind = "tx"
    /\ exc[u] # "none"

\* C3: an exception that propagates out of transaction calls passes the
\* nested ones without any effect on the connection, and at the outermost
\* one (the one that leased) causes one rollback and one release and no
\* commit at all; at every level the caller receives the exception that was
\* raised, unchanged.
C3_ExceptionRollsBackOnceUnchanged ==
    [][\A u \in Units :
          TxExitRaising(u) =>
              /\ exc'[u] = exc[u]
              /\ IF Top(u).leased
                 THEN LET c == Top(u).cnx
                      IN  /\ conns'[c].commits = 0
                          /\ DeltaRollbacks(c) = 1
                          /\ conns'[c].rollbacks = 1
                          /\ DeltaReleases(c) = 1
                          /\ conns'[c].releases = 1
                 ELSE conns' = conns]_vars

(* ------------------------------ C4 ------------------------------------ *)

\* the entry that leased c is still in progress
LeasingEntryInProgress(c) ==
    \E u \in Units : \E e \in Entries(u) : e.leased /\ e.cnx = c

\* C4: a connection is never released twice; it stays leased only while the
\* entry that leased it is in progress, so every way out of that entry -
\* normal completion, an exception in the block, a commit that raises, a
\* rollback that raises - has released it; and a released connection has had
\* a commit or a rollback attempted on it by the scope.
C4_ReleasedExactlyOnce ==
    \A c \in CnxIds :
        /\ conns[c].releases <= 1
        /\ conns[c].st = "released" <=> conns[c].releases = 1
        /\ conns[c].st = "leased" => LeasingEntryInProgress(c)
        /\ conns[c].st = "released"
               => ScopeCommits(conns[c]) + conns[c].rollbacks >= 1

\* a block exit whose commit raised and whose rollback raised as well: the
\* connection is released all the same
C4_Witness ==
    /\ exc[1] = "rollback"
    /\ stack[1] = <<>>
    /\ conns[1].st = "released"
    /\ conns[1].releases = 1
    /\ ScopeCommits(conns[1]) = 1
    /\ conns[1].rollbacks = 1
    /\ Len(conns[1].log) = 2

(* ------------------------------ C5 ------------------------------------ *)

\* C5: a leased connection is the active connection of at most one unit,
\* tasks spawned under an Active scope included.
C5_CellNeverShared ==
    \A c \in CnxIds :
        Live(c) => Cardinality({u \in started : cell[u] = c}) <= 1

(* ------------------------------ C6 ------------------------------------ *)

\* C6 (as stated): a connection that went through its call tree has received
\* exactly one commit-or-rollback call in total, the commits made by
\* Connection.execute included, and exactly one release.
C6_OneCommitOrRollbackInTotal ==
    \A c \in CnxIds :
        conns[c].st = "released" =>
            /\ conns[c].commits + conns[c].rollbacks = 1
            /\ conns[c].releases = 1

\* C6 (amended): for every call tree the scope itself calls commit at most
\* once and rollback at most once, at least one of the two, and release
\* exactly once, none of them before the tree is left; besides these,
\* Connection.execute commits at most once per statement it ran, which it
\* does while autocommit is on.
C6_OneScopeCommitOrRollback ==
    \A c \in CnxIds :
        /\ conns[c].auto <= Len(conns[c].log)
        /\ ScopeCommits(conns[c]) \in {0, 1}
        /\ conns[c].rollbacks \in {0, 1}
        /\ conns[c].st = "leased" =>
               (ScopeCommits(conns[c]) = 0 /\ conns[c].rollbacks = 0 /\ conns[c].releases = 0)
        /\ conns[c].st = "released" =>
               /\ ScopeCommits(conns[c]) + conns[c].rollbacks >= 1
               /\ conns[c].releases = 1

\* a top-level bound execute with autocommit on: Connection.execute committed
\* the statement and the scope exit committed again
C6_Witness ==
    /\ conns[1].st = "released"
    /\ conns[1].log = <<1>>
    /\ conns[1].auto = 1
    /\ conns[1].commits = 2
    /\ conns[1].rollbacks = 0
    /\ conns[1].releases = 1
    /\ exc[1] = "none"

(* ------------------------------ C7 ------------------------------------ *)

\* a transaction call on connection c is in progress
TxRunning(c) ==
    \E u \in Units : \E i \in DOMAIN stack[u] :
        stack[u][i].kind = "tx" /\ stack[u][i].cnx = c

\* C7: while a transaction call is in progress on a connection, autocommit
\* is off on it, Connection.execute commits none of the statements it runs
\* on it, and the only step that commits on it is the exit of the entry
\* that leased it, by the scope's own commit.
C7_NoCommitInsideTransaction ==
    [][\A c \in CnxIds :
          TxRunning(c) =>
              /\ ~conns[c].ac
              /\ conns'[c].auto = conns[c].auto
              /\ conns'[c].commits # conns[c].commits
                     => (ExitOfLeasingEntry(c) /\ DeltaScopeCommits(c) = 1)]_vars

\* a transaction call in progress after two statements ran on its
\* connection, none of them committed
C7_Witness ==
    /\ stack[1] # <<>>
    /\ Top(1).kind = "tx"
    /\ Live(Top(1).cnx)
    /\ Len(conns[Top(1).cnx].log) = 2
    /\ conns[Top(1).cnx].commits = 0

(* ------------------------------ C8 ------------------------------------ *)

\* C8: autocommit is off on the connection while a transaction call runs on
\* it, and when a transaction call is left inside an enclosing scope that is
\* still Active, the connection's autocommit flag has the value it had when
\* the call was entered.
C8_AutocommitRestored ==
    [][/\ \A c \in CnxIds : TxRunning(c) => ~conns[c].ac
       /\ \A u \in Units :
              (/\ stack[u] # <<>>
               /\ stack'[u] = Pop(u)
               /\ Top(u).kind = "tx"
               /\ ~Top(u).leased
               /\ cell'[u] = Top(u).cnx
               /\ conns'[Top(u).cnx].st = "leased")
                  => conns'[Top(u).cnx].ac = Top(u).ac0]_vars

(* ------------------------------ C9 ------------------------------------ *)

\* the number of connection-typed parameters a signature declares
CnxParams(sig) ==
    Cardinality({i \in DOMAIN sig : sig[i] = "cnx"})

\* this step enters a transaction call in u
TxEntered(u) ==
    /\ Len(stack'[u]) = Len(stack[u]) + 1
    /\ stack'[u][Len(stack'[u])].kind = "tx"

\* the frames of the transaction calls of u that received a connection which
\* is still leased
InjectedFrames(u) ==
    {i \in DOMAIN stack[u] :
        stack[u][i].kind = "tx" /\ stack[u][i].inj # NoCnx /\ Live(stack[u][i].inj)}

Stamps(c) ==
    {conns[c].log[i] : i \in DOMAIN conns[c].log}

\* the statement logs are in issue order and no statement is in two of them
LogsInOrder ==
    /\ \A c \in CnxIds : \A i, j \in DOMAIN conns[c].log :
           i < j => conns[c].log[i] < conns[c].log[j]
    /\ \A c \in CnxIds : Stamps(c) \subseteq 1..clock
    /\ \A c1, c2 \in CnxIds : c1 # c2 => Stamps(c1) \cap Stamps(c2) = {}

\* C10: the statements reach each connection in the order they were issued;
\* issuing a statement makes exactly one call on exactly one connection, as
\* the last call that connection has received, and no other step adds to,
\* removes from or reorders what a connection has received.
C10_StatementsInIssueOrder ==
    [][/\ LogsInOrder
       /\ LogsInOrder'
       /\ clock' = clock + 1 =>
              \E c \in CnxIds :
                  /\ conns'[c].log = Append(Before(c).log, clock + 1)
                  /\ \A d \in CnxIds \ {c} : conns'[d].log = conns[d].log
       /\ clock' = clock =>
              \A c \in CnxIds : conns'[c].log = Before(c).log]_vars

\* a transaction call in progress whose connection received a bound call's
\* statement and then a direct one
C10_Witness ==
    /\ stack[1] # <<>>
    /\ Top(1).kind = "tx"
    /\ Top(1).inj # NoCnx
    /\ Live(Top(1).inj)
    /\ conns[Top(1).inj].log = <<1, 2>>

(* ---------------------- generating queries --------------------------- *)

\* the consumer of stream s stops pulling before the generator is exhausted:
\* it closes the generator, or abandons it to the event loop
EarlyStop(s) ==
    \/ \E u \in Units : StreamClose(u, s)
    \/ StreamFinalize(s)

\* C11: when the consumer of a stream stops pulling before exhaustion, the
\* stream's cursor is closed exactly once, and if the stream's call performed
\* the lease the connection is released exactly once and the consuming unit's
\* scope cell is empty afterwards, so that its next bound call leases.
C11_EarlyStopReleasesCursorAndScope ==
    [][\A s \in Streams :
         EarlyStop(s) =>
             LET c == streams[s].cnx
                 u == streams[s].owner
             IN  /\ conns'[c].closed = conns[c].closed + 1
                 /\ streams[s].leased =>
                        /\ conns'[c].releases = conns[c].releases + 1
                        /\ conns'[c].st = "released"
                        /\ cell'[u] = NoCnx]_vars

\* this step invokes the bound generating query that builds stream s
Invoked(s) ==
    streams[s].st = "unused" /\ streams'[s].st = "new"

\* this step is the first pull of stream s
FirstPulled(s) ==
    streams[s].st = "new" /\ streams'[s].st # "new"

\* this step is a later pull of stream s that finds a row
LaterPulled(s) ==
    streams[s].st = "open" /\ streams'[s].st = "open" /\ streams'[s] # streams[s]

\* this step sends statement number clock + 1 to connection c, on a new cursor
Executes(c) ==
    /\ clock' = clock + 1
    /\ conns'[c].log = Append(Before(c).log, clock + 1)
    /\ conns'[c].cursors = Before(c).cursors + 1

\* this step sends no statement, leases nothing and leaves the cells alone
RunsNothing ==
    /\ clock' = clock
    /\ conns' = conns
    /\ cell' = cell

\* C12 as claimed: invoking a stream-bound function acquires the scope
\* connection and executes the query at call time, before the first pull, and
\* the pulls only fetch.
C12_ExecutesAtCallTime ==
    [][\A s \in Streams :
         /\ Invoked(s) =>
                LET u == streams'[s].owner
                IN  \/ exc'[u] = "lease"
                    \/ cell'[u] # NoCnx /\ Executes(cell'[u])
         /\ FirstPulled(s) \/ LaterPulled(s) => clock' = clock]_vars

\* C12: invoking a stream-bound function only builds the generator - no
\* connection is acquired and no statement is executed at call time.  The
\* first pull acquires the scope connection (the one in the cell, or a newly
\* leased one when the cell is empty) and executes the query on it, unless the
\* lease fails; later pulls only fetch.
C12_ExecutesAtFirstPull ==
    [][\A s \in Streams :
         /\ Invoked(s) => RunsNothing
         /\ FirstPulled(s) =>
                LET u == streams[s].owner
                    c == IF MustLease(u) THEN Lease ELSE cell[u]
                IN  \/ exc'[u] = "lease" /\ RunsNothing
                    \/ /\ Executes(c)
                       /\ MustLease(u) => LeasedInStep(c)
                       /\ \A d \in CnxIds \ {c} : conns'[d] = conns[d]
         /\ LaterPulled(s) => RunsNothing]_vars

\* a stream-bound function has been invoked and not pulled yet, at top level:
\* nothing has been leased or executed
C12_Witness ==
    /\ streams["s1"].st = "new"
    /\ cell[streams["s1"].owner] = NoCnx
    /\ clock = 0
    /\ \A c \in CnxIds : conns[c].st = "free"

\* the rows of a sequence, each mapped by the row mapper
Mapped(rows) ==
    [k \in 1..Len(rows) |-> MapRow(rows[k])]

\* what stream s has yielded so far, followed by what its cursor still
\* holds, is the result of its query in cursor order, and it has fetched once
\* for every row it yielded
YieldedInOrder(s) ==
    LET str == streams[s]
        n == Len(str.got) + Len(str.rows)
    IN  /\ str.got \o Mapped(str.rows) = Mapped(CursorRows(n))
        /\ str.fetches = Len(str.got)

\* this step is the pull of stream s that finds the cursor empty
Exhausted(s) ==
    /\ streams[s].st = "open"
    /\ streams[s].rows = <<>>
    /\ \E u \in Units : StreamPull(u, s)

\* C13: a stream yields the rows of its cursor, each mapped by the row mapper,
\* in cursor order, one fetch per pull; it only moves forward; the pull that
\* finds the cursor empty ends it and closes its cursor; and every invocation
\* of the bound function starts empty and, at its first pull, runs a new
\* statement on a cursor of its own, from the first row.
C13_StreamYieldsCursorRowsInOrder ==
    [][\A s \in Streams :
         /\ YieldedInOrder(s)
         /\ YieldedInOrder(s)'
         /\ Invoked(s) => streams'[s].got = <<>> /\ streams'[s].fetches = 0
         /\ FirstPulled(s) /\ streams'[s].st = "open" =>
                /\ Executes(streams'[s].cnx)
                /\ streams'[s].got = <<MapRow(CursorRows(1)[1])>>
         /\ LaterPulled(s) =>
                /\ streams'[s].got = Append(streams[s].got, MapRow(Head(streams[s].rows)))
                /\ streams'[s].rows = Tail(streams[s].rows)
                /\ streams'[s].fetches = streams[s].fetches + 1
         /\ Exhausted(s) =>
                /\ streams'[s].st = "unused"
                /\ conns'[streams[s].cnx].closed = conns[streams[s].cnx].closed + 1]_vars

\* after an earlier statement, a stream has yielded both rows of its query
C13_Witness ==
    /\ clock = 2
    /\ streams["s1"].st = "open"
    /\ streams["s1"].got = <<1, 2>>
    /\ streams["s1"].rows = <<>>

(* ------------------- the two binders side by side -------------------- *)

\* the entries of u in progress that leased
LeasingEntries(u) ==
    {i \in DOMAIN stack[u] : stack[u][i].leased}

OneRowCalled ==
    last.op = "call" /\ fn.kind = "query" /\ fn.strategy = "one"

\* the declared return type is Optional[X]
DeclaredOptional(f) ==
    UnwrapOptional(f.ret) # NotOptional

\* C14: a OneRow query raises TooManyRowsError whenever its statement yields
\* more than one row, returns the mapped row when it yields exactly one, and
\* returns None when it yields none and the declared type is Optional -
\* whatever row count the cursor reports.
C14_OneRowByRowsYielded ==
    OneRowCalled =>
        /\ last.rows > 1 => last.error = "TooManyRowsError"
        /\ last.rows = 1 =>
               /\ last.error = Apply(fn, CursorRows(1)[1]).error
               /\ last.value = Apply(fn, CursorRows(1)[1]).value
        /\ last.rows = 0 /\ DeclaredOptional(fn) =>
               /\ last.error = "none"
               /\ last.value = NoneValue

(* ------------------------ bind-time checks ---------------------------- *)

\* the first segment of every placeholder path names a parameter that the
\* callable declares
NamesDeclaredParameters(paths, f) ==
    \A i \in 1..Len(paths) : \E k \in 1..Len(f.sig) : paths[i][1] = k

\* C16: binding a callable that is not bound yet with execute or with query
\* fails with MissingTemplateArgumentError exactly when the first segment of
\* some placeholder path of the template names no declared parameter; the
\* failed bind produces no bound function.
C16_TemplateArgumentsMustBeDeclared ==
    [][fn.kind = "plain" /\ last'.op = "bind" =>
         \A by \in {"execute", "query"}, paths \in Templates :
             Bind(by, "name", paths) =>
                 /\ last'.error = "MissingTemplateArgumentError"
                        <=> ~NamesDeclaredParameters(paths, fn)
                 /\ last'.error = "MissingTemplateArgumentError" => fn' = fn]_vars

\* a query bind of a callable that declares parameters has failed on its
\* template: the callable is still not bound
C16_Witness ==
    /\ last.op = "bind"
    /\ last.by = "query"
    /\ last.error = "MissingTemplateArgumentError"
    /\ fn.kind = "plain"
    /\ Len(fn.sig) = MaxParams

\* the last step was a bind of a callable that had been bound before: the
\* name of the callable referred to a bound function
BoundAgain ==
    last.op = "bind" /\ last.on # "plain"

FreshBind(by) ==
    /\ last.op = "bind"
    /\ last.by = by
    /\ last.on = "plain" \/ last.target = "original"

\* the return annotations execute accepts
ExecutionReturnTypes ==
    {Empty, NoneT, Bare("int")}

\* C18: execute accepts a callable whose return annotation is absent, None or
\* int and rejects every other annotation at bind time with
\* BadReturnTypeError (a template naming an undeclared parameter is reported
\* first); a call of the bound function returns None when the annotation is
\* absent or None and the row count the connection reported when it is int.
C18_ExecuteReturnsNoneOrCount ==
    /\ FreshBind("execute") /\ last.error # "MissingTemplateArgumentError" =>
           /\ last.error = "none" <=> fn.ret \in ExecutionReturnTypes
           /\ last.error = "BadReturnTypeError" <=> fn.ret \notin ExecutionReturnTypes
    /\ fn.kind = "execute" => fn.ret \in ExecutionReturnTypes
    /\ last.op = "call" /\ fn.kind = "execute" =>
           /\ last.error = "none"
           /\ last.value = IF fn.ret = Bare("int") THEN Count(last.rowcount)
                           ELSE NoneValue

\* a bound execution declared "-> int" was called and returned the count of
\* two affected rows
C18_Witness ==
    /\ last.op = "call"
    /\ fn.kind = "execute"
    /\ fn.ret = Bare("int")
    /\ last.rowcount = 2
    /\ last.value = Count(2)

(* ---------------------- return-shape inference ------------------------ *)

\* the shapes of return annotation the inference is described by
RecordTypes ==
    {Bare(n) : n \in {"int", "str", "bool", "Rec", "tuple"}}

BareMapTypes ==
    {Bare(n) : n \in {"dict", "abc.Mapping", "typing.Dict", "typing.Mapping"}}

OtherUnions ==
    {Type("Union", <<Bare("int"), Bare("str")>>),
     Type("Union", <<Bare("int"), Bare("str"), NoneT>>)}

UnmappableRows ==
    {Type("typing.Dict", <<Bare("str"), Bare("int")>>),
     Type("typing.Tuple", <<Bare("int"), Bare("str")>>),
     Type("typing.List", <<Bare("int")>>),
     OptionalOf(Bare("int"))}

ListsOfUnmappableRows ==
    {Type(n, <<e>>) : n \in ListSpellings, e \in UnmappableRows}

\* query was applied to a function that was not bound, its template names
\* declared parameters only, and the annotation is not a generator
QueryInferred ==
    /\ FreshBind("query")
    /\ last.error # "MissingTemplateArgumentError"
    /\ GetOrigin(fn.ret) \notin GENERATOR_GENERICS

\* the bind built a bound query with this strategy
Selected(strategy) ==
    last.error = "none" /\ fn.kind = "query" /\ fn.strategy = strategy

\* C19: the return-shape inference of query at bind time.  No annotation:
\* ManyRows of raw row tuples.  None: the None strategy, and the call returns
\* None.  A bare record type or an Optional of it: OneRow.  A map type without
\* parameters: OneRow through the map mapper.  A union other than Optional, a
\* parameterized tuple or map, a list of rows that have no mapper: the bind
\* fails with CannotInferMappingError.
C19_ReturnShapeInference ==
    /\ QueryInferred =>
           /\ fn.ret = Empty => Selected("many") /\ fn.mapper = "tuple"
           /\ fn.ret = NoneT => Selected("none")
           /\ fn.ret \in RecordTypes \cup {OptionalOf(t) : t \in RecordTypes}
                  => Selected("one")
           /\ fn.ret \in BareMapTypes => Selected("one") /\ fn.mapper = "dict"
           /\ fn.ret \in OtherUnions \cup ParameterizedTuples \cup ParameterizedMaps
                             \cup ListsOfUnmappableRows
                  => last.error = "CannotInferMappingError"
    /\ last.op = "call" /\ fn.kind = "query" /\ fn.ret = NoneT =>
           last.error = "none" /\ last.value = NoneValue

\* the annotation Optional[Rec] was bound as OneRow through the class mapper
C19_Witness ==
    /\ QueryInferred
    /\ fn.ret = OptionalOf(Bare("Rec"))
    /\ Selected("one")
    /\ fn.mapper = "class"

\* the list types: every spelling, without an element type and with an
\* element type that has a mapper
BareListTypes ==
    {Bare(n) : n \in ListSpellings}

ListsOfMappableRows ==
    {Type(n, <<e>>) : n \in ListSpellings, e \in RowTypes \ UnmappableRows}

\* C20: a return annotation that is a list type selects ManyRows in every
\* spelling of the list type (list, typing.List, Sequence, Iterable), with or
\* without an element type; without one each row is returned as the raw
\* tuple, with one the element type selects the row mapper.
C20_EveryListSpellingSelectsManyRows ==
    QueryInferred =>
        /\ fn.ret \in BareListTypes => Selected("many") /\ fn.mapper = "tuple"
        /\ fn.ret \in ListsOfMappableRows =>
               Selected("many") /\ fn.mapper = GetRowMapper(fn.ret.args[1])

(* --------------------------- row mappers ------------------------------ *)

\* the last step asked the registry for the mapper of a row type
MapperAsked ==
    last.op = "map"

ScalarTypes ==
    {Bare(n) : n \in {"str", "int", "float", "complex", "datetime", "UUID"}}

BareTupleTypes ==
    {Bare("tuple"), Bare("typing.Tuple")}

OtherClasses ==
    {Bare("bool"), Bare("Rec"), Bare("list")}

UnsupportedRowShapes ==
    ParameterizedTuples \cup ParameterizedMaps
    \cup {Bare("Union"), Type("Union", <<Bare("int"), Bare("str")>>),
          OptionalOf(Bare("int")), OptionalOf(Bare("Rec"))}

C22_BoolQueryReturnsBoolean ==
    /\ last.op = "call"
    /\ fn.kind = "query"
    /\ fn.ret = Bare("bool")
    /\ last.rows = 1
    => /\ last.error = "none"
       /\ last.value = Bool(CursorRows(1)[1][1] = 1)

(* ----------------------------- templates ------------------------------ *)

\* render has returned: the last operation is a render that raised nothing
Rendered ==
    last.op = "render" /\ last.error = "none"

\* the placeholders of the template, from left to right
Placeholders ==
    SelectSeq(template.parsed, LAMBDA frag : frag.is = "group")

\* the values a member of a node can have
MemberValues(node, name) ==
    IF node.is \in {"dict", "object"} /\ name \in DOMAIN node.of[1]
    THEN {node.of[1][name][i] : i \in DOMAIN node.of[1][name]}
    ELSE {}

\* the values a path can resolve to in the arguments
RECURSIVE ValuesFrom(_, _, _)
ValuesFrom(path, k, nodes) ==
    IF k > Len(path) THEN nodes
    ELSE ValuesFrom(path, k + 1,
                    UNION {MemberValues(node, path[k]) : node \in nodes})

ValuesOf(path, kwargs) ==
    ValuesFrom(path, 1, {Dict(kwargs)})

\* the text a template and the values of its placeholders make: a string as
\* it is, the marker for a parameter, the string form of a replaced value
RECURSIVE Assembled(_, _, _)
Assembled(frags, values, marker) ==
    IF frags = <<>> THEN <<>>
    ELSE LET frag == Head(frags)
         IN  IF frag.is = "str"
             THEN frag.text \o Assembled(Tail(frags), values, marker)
             ELSE (IF frag.is_replace THEN StrOf(Head(values)) ELSE marker)
                  \o Assembled(Tail(frags), Tail(values), marker)

\* the values of the parameter placeholders among the values of them all
RECURSIVE ParametersAmong(_, _)
ParametersAmong(placeholders, values) ==
    IF placeholders = <<>> THEN <<>>
    ELSE (IF Head(placeholders).is_replace THEN <<>> ELSE <<Head(values)>>)
         \o ParametersAmong(Tail(placeholders), Tail(values))

HasOpener(text) ==
    \E i \in DOMAIN text : OPENS(text, i)

\* the text is not empty and has none of the characters of a placeholder
Plain(text) ==
    /\ text # <<>>
    /\ \A i \in DOMAIN text : text[i] \notin {"#", "!", "{", "}"}

\* the positions of the #{...} occurrences among the placeholders
ParameterPlaceholders ==
    SelectSeq(Placeholders, LAMBDA frag : ~frag.is_replace)

ReplacedValues ==
    {last.used[k] : k \in {i \in DOMAIN Placeholders :
                               Placeholders[i].is_replace}}

RECURSIVE AssembledCalling(_, _, _, _)
AssembledCalling(frags, values, provider, n) ==
    IF frags = <<>> THEN <<>>
    ELSE LET frag == Head(frags)
         IN  IF frag.is = "str"
             THEN frag.text
                  \o AssembledCalling(Tail(frags), values, provider, n)
             ELSE IF frag.is_replace
             THEN StrOf(Head(values))
                  \o AssembledCalling(Tail(frags), Tail(values), provider, n)
             ELSE ProviderCall(provider, n)
                  \o AssembledCalling(Tail(frags), Tail(values), provider,
                                      n + 1)

\* C25: a render that is given a symbol provider, and whose paths all
\* resolve, returns; it has called the provider once per #{...} occurrence
\* and never for a !{...} one, and the i-th #{...} occurrence is rendered as
\* the marker of the i-th call ($1, $2, ... for a numbered provider).
C25_ProviderCalledOncePerParameter ==
    (/\ last.op = "render"
     /\ last.symbol.is # "str"
     /\ last.error \notin {"KeyError", "AttributeError"})
        => /\ last.error = "none"
           /\ last.calls = Len(ParameterPlaceholders)
           /\ last.sql = AssembledCalling(template.parsed, last.used,
                                          last.symbol, 1)

\* path p starts path q
IsPrefix(p, q) ==
    Len(p) <= Len(q) /\ SubSeq(q, 1, Len(p)) = p

\* the distinct paths of the placeholders of the template
PlaceholderPaths ==
    {Placeholders[k].path : k \in DOMAIN Placeholders}

\* C26: within one render, every path is resolved at most once, whatever
\* the value it resolves to: a member is read once for every distinct path
\* that leads to or through it, and never once more, and the occurrences of
\* one path all receive the same value.
C26_PathResolvedOncePerRender ==
    last.op = "render" =>
        /\ \A member \in DOMAIN last.reads :
               last.reads[member]
                   <= Cardinality({path \in PlaceholderPaths :
                                       IsPrefix(member, path)})
        /\ \A i, j \in DOMAIN last.used :
               Placeholders[i].path = Placeholders[j].path
                   => last.used[i] = last.used[j]

\* the paths of the placeholders of a source that parses, from left to
\* right: the one of every opener
RECURSIVE OccurrencesFrom(_, _)
OccurrencesFrom(source, i) ==
    IF i > Len(source) THEN <<>>
    ELSE IF OPENS(source, i)
    THEN <<LOOKUP(source, i).path>> \o OccurrencesFrom(source, i + 1)
    ELSE OccurrencesFrom(source, i + 1)

\* the distinct elements of a sequence, each at its first appearance
RECURSIVE Distinct(_, _)
Distinct(seq, seen) ==
    IF seq = <<>> THEN <<>>
    ELSE IF Head(seq) \in seen THEN Distinct(Tail(seq), seen)
    ELSE <<Head(seq)>> \o Distinct(Tail(seq), seen \cup {Head(seq)})

\* a template has been constructed
Constructed ==
    template # NoTemplate

\* C27 as stated: the arguments of a template are the distinct paths of
\* its placeholders, each once, at the position of its first appearance.
C27_ArgumentsAreDistinctPaths ==
    Constructed =>
        template.arguments
            = Distinct(OccurrencesFrom(template.source, 1), {})

\* C27, amended: the arguments of a template are the paths of its
\* placeholders in order of appearance, one entry per occurrence: a path
\* that occurs several times in the source is listed as many times.
C27_ArgumentsAreOccurrences ==
    Constructed =>
        template.arguments = OccurrencesFrom(template.source, 1)

\* a template in which a path occurs twice has been constructed
C27_Witness ==
    /\ Constructed
    /\ \E i, j \in DOMAIN template.arguments :
           i < j /\ template.arguments[i] = template.arguments[j]

\* the values a path resolves to when every node that supports key lookup
\* (a dictionary or another mapping) is asked for the key and every other
\* node for the member
MemberOrKeyValues(node, name) ==
    IF node.is \in {"dict", "mappingproxy", "object"}
       /\ name \in DOMAIN node.of[1]
    THEN {node.of[1][name][i] : i \in DOMAIN node.of[1][name]}
    ELSE {}

RECURSIVE MemberOrKeyValuesFrom(_, _, _)
MemberOrKeyValuesFrom(path, k, nodes) ==
    IF k > Len(path) THEN nodes
    ELSE MemberOrKeyValuesFrom(path, k + 1,
             UNION {MemberOrKeyValues(node, path[k]) : node \in nodes})

\* a segment of the path is absent from the arguments
Absent(path, kwargs) ==
    MemberOrKeyValuesFrom(path, 1, {Dict(kwargs)}) = {}

\* C28: a render with a string symbol raises ArgumentResolutionError when a
\* segment of the path of one of its placeholders is absent, as a key of a
\* node that supports key lookup or as a member of another node, and
\* resolves every path otherwise.
C28_AbsentSegmentIsArgumentResolutionError ==
    (last.op = "render" /\ last.symbol.is = "str") =>
        last.error
            = IF \E k \in DOMAIN Placeholders :
                     Absent(Placeholders[k].path, last.kwargs)
              THEN "ArgumentResolutionError" ELSE "none"

\* the closer that follows the opener at position i: the position of the
\* first "}" after it, or 0
CloserOf(source, i) ==
    LET closers == {j \in (i + 2)..Len(source) : source[j] = "}"}
    IN  IF closers = {} THEN 0
        ELSE CHOOSE j \in closers : \A k \in closers : j <= k

\* the opener at position i is unterminated, or opens an empty placeholder,
\* or a placeholder in which another one is nested
Unterminated(source, i) ==
    OPENS(source, i) /\ CloserOf(source, i) = 0

EmptyPlaceholder(source, i) ==
    /\ OPENS(source, i) /\ CloserOf(source, i) # 0
    /\ \A k \in (i + 2)..(CloserOf(source, i) - 1) : source[k] \in WHITE

NestedPlaceholder(source, i) ==
    /\ OPENS(source, i) /\ CloserOf(source, i) # 0
    /\ \E k \in (i + 2)..(CloserOf(source, i) - 1) : OPENS(source, k)

Malformed(source) ==
    \E i \in DOMAIN source : \/ Unterminated(source, i)
                              \/ EmptyPlaceholder(source, i)
                              \/ NestedPlaceholder(source, i)

\* the first opener of the source that does not open a well-formed
\* placeholder
FirstBadOpener(source) ==
    LET bad == {i \in DOMAIN source : OPENS(source, i) /\ ~LOOKUP(source, i).ok}
    IN  CHOOSE i \in bad : \A k \in bad : i <= k

\* the message shows the line of the source that holds position p, and marks
\* the column of p in it
Shows(source, line, col, p) ==
    LET first == p - col + 1
        after == first + Len(line)
    IN  /\ col >= 1 /\ first >= 1
        /\ first = 1 \/ source[first - 1] = "\n"
        /\ after <= Len(source) + 1
        /\ after = Len(source) + 1 \/ source[after] = "\n"
        /\ line = SubSeq(source, first, after - 1)
        /\ \A k \in DOMAIN line : line[k] # "\n"
        /\ p <= after

PoolAssigned ==
    last' # last /\ last'.op = "pool"

Holds(r) ==
    runners[r].locked /\ runners[r].pc # "done"

InProgress ==
    db.state.status = "in_progress"

\* the positions of _apply_pending_scripts
Applying(r) ==
    runners[r].pc \in {"apply_single_script", "insert_revision",
                       "handle_script_error", "update_state_success"}

RevisionsBy(r) ==
    {k \in DOMAIN db.revisions : db.revisions[k].by = r}

\* C31: among the runners started on one database at most one holds the
\* in_progress state row at any moment, only the holder applies scripts
\* (runs one, has uncommitted statements of one, or has inserted a revision),
\* and a runner whose acquire-lock statement affected zero rows has raised
\* MigrationInProgressError, has run no script and inserted no revision.
C31_LockExcludesConcurrentRuns ==
    /\ Cardinality({r \in Runners : Holds(r)}) <= 1
    /\ \A r \in Runners :
        /\ Holds(r) => InProgress
        /\ (Applying(r) \/ runners[r].open # <<>>) => Holds(r)
        /\ (runners[r].completed # <<>> \/ RevisionsBy(r) # {})
               => runners[r].locked
        /\ runners[r].affected = 0
               => /\ runners[r].pc = "done"
                  /\ runners[r].error = "MigrationInProgressError"
                  /\ ~runners[r].locked
                  /\ runners[r].completed = <<>>
                  /\ runners[r].open = <<>>
                  /\ RevisionsBy(r) = {}

\* a runner has applied a script under the lock while the acquire-lock
\* statement of another one affected zero rows
C31_Witness ==
    \E r \in Runners, other \in Runners :
        /\ Holds(r)
        /\ runners[r].completed # <<>>
        /\ runners[other].affected = 0
        /\ runners[other].error = "MigrationInProgressError"

\* the success revisions a runner has inserted for a script
SuccessBy(r, script, revisions) ==
    {k \in DOMAIN revisions :
        revisions[k] = Revision(script, "success", r)}

\* the step in which the upgrade() of a lock holder ends: it leaves the state
\* row at 'success' with the number of scripts applied, every pending script
\* recorded, or at 'error' with the statements of the failed script rolled
\* back, its 'error' revision recorded and no later script run
EndsOutOfProgress(r) ==
    LET was == runners[r]
        now == runners'[r]
        failed == was.pending[was.at]
    IN  (Holds(r) /\ now.pc = "done") =>
            /\ now.open = <<>>
            /\ IF now.error = "none"
               THEN /\ db'.state.status = "success"
                    /\ db'.state.applied_count = Len(was.pending)
                    /\ now.completed = was.pending
                    /\ \A k \in DOMAIN was.pending :
                           SuccessBy(r, was.pending[k], db'.revisions) # {}
               ELSE /\ db'.state.status = "error"
                    /\ now.error = "RevisionError"
                    /\ db'.applied = db.applied
                    /\ db'.revisions =
                           Append(db.revisions, Revision(failed, "error", r))
                    /\ \A k \in DOMAIN was.pending :
                           k > was.at => SuccessBy(r, was.pending[k],
                                                   db'.revisions) = {}

\* the state row is in progress only while the runner that inserted it is
\* running, and the committed statements are those of scripts that have a
\* 'success' revision
LockHasHolder ==
    /\ InProgress => \E r \in Runners : Holds(r)
    /\ \A k \in DOMAIN db.applied :
           \E j \in DOMAIN db.revisions :
               /\ db.revisions[j].revision_name = db.applied[k]
               /\ db.revisions[j].status = "success"

RECURSIVE Occurrences(_, _)
Occurrences(seq, x) ==
    IF seq = <<>> THEN 0
    ELSE (IF Head(seq) = x THEN 1 ELSE 0) + Occurrences(Tail(seq), x)

RECURSIVE Completions(_, _)
Completions(rs, script) ==
    IF rs = {} THEN 0
    ELSE LET r == CHOOSE x \in rs : TRUE
         IN  Occurrences(runners[r].completed, script)
                 + Completions(rs \ {r}, script)

\* C40: no script is applied successfully more than once: every revision
\* name has at most one 'success' revision record, and its upgrade function
\* has run to completion at most once over all the runs.
C40_NoScriptAppliedTwice ==
    \A k \in DOMAIN Scripts :
        /\ Cardinality({j \in DOMAIN db.revisions :
               /\ db.revisions[j].revision_name = Scripts[k]
               /\ db.revisions[j].status = "success"}) <= 1
        /\ Completions(Runners, Scripts[k]) <= 1

(* ------------------------ the cell and the scope ------------------------ *)

\* the scope of u is Active: the entry that leased (a block, a transaction
\* call or a generating query that is suspended) is in progress
ScopeInProgress(u) ==
    \E e \in Entries(u) : e.leased

\* C33: in every reachable state the scope cell of a unit holds a connection
\* exactly when the unit has a scope entry in progress, and the connection it
\* holds is leased and not released.
C33_CellHoldsLiveConnectionOfScope ==
    \A u \in started :
        /\ (cell[u] # NoCnx) <=> ScopeInProgress(u)
        /\ cell[u] # NoCnx => Live(cell[u])

(* ------------------- streams and the scope around them ------------------ *)

\* this step runs a statement on connection c
StatementOn(c) ==
    Len(conns'[c].log) > Len(Before(c).log)

\* this step fetches a row from the cursor of stream s
FetchOn(s) ==
    /\ streams'[s].st = "open"
    /\ streams'[s].fetches > (IF streams[s].st = "open"
                              THEN streams[s].fetches ELSE 0)

\* every statement and every fetch of this step is made on a connection the
\* step finds leased, or leases
UsesLeased ==
    /\ \A c \in CnxIds :
           StatementOn(c) => (LeasedInStep(c) \/ conns[c].st = "leased")
    /\ \A s \in Streams :
           FetchOn(s) =>
               LET c == streams'[s].cnx
               IN  LeasedInStep(c) \/ conns[c].st = "leased"

\* C34: no statement is executed and no row is fetched on a connection that
\* has been released to the pool, by any bound call, direct statement or
\* pull of a generating query.
C34_NoUseAfterRelease ==
    [][UsesLeased]_vars

\* stream s leased its connection and is suspended before and after this
\* step: the step is made between its first pull and its end
LeasedStreamSuspended(s) ==
    /\ streams[s].st = "open"
    /\ streams[s].leased
    /\ streams'[s].st = "open"

\* during this step the scope of the unit of stream s stays Active on the
\* connection of the stream, so that a bound call finds it in the cell; the
\* step leases nothing, and a statement it runs on another connection is
\* not one of a bound call: it is made directly on the connection that an
\* open entry handed out
ReusesStreamConnection(s) ==
    LET c == streams[s].cnx
        u == streams[s].owner
    IN  /\ cell[u] = c /\ cell'[u] = c
        /\ conns[c].st = "leased" /\ conns'[c].st = "leased"
        /\ \A d \in CnxIds \ {c} :
               /\ conns'[d].st = conns[d].st
               /\ conns'[d].releases = conns[d].releases
               /\ conns'[d].log # conns[d].log
                      => \E v \in Units : stack[v] # <<>> /\ Top(v).cnx = d

ExhaustsLeased(s, c) ==
    \/ /\ streams[s].st = "open"
       /\ streams[s].leased
       /\ streams[s].cnx = c
       /\ streams[s].rows = <<>>
       /\ \E u \in Units : StreamPull(u, s)
    \/ /\ streams[s].st = "new"
       /\ LeasedInStep(c)
       /\ conns'[c].closed = 1
       /\ \E u \in Units : StreamFirstPull(u, s)

\* this step closes or abandons stream s, whose call leased connection c,
\* before it is exhausted
StopsLeased(s, c) ==
    /\ streams[s].st = "open"
    /\ streams[s].leased
    /\ streams[s].cnx = c
    /\ EarlyStop(s)

\* C36: for a stream whose call performed the lease, exhausting the stream
\* commits (a rollback follows only when that commit raises), closing or
\* abandoning it before exhaustion rolls back and does not commit; in both
\* cases the connection is then released exactly once.
C36_StreamEndCommitsOrRollsBack ==
    [][\A s \in Streams, c \in CnxIds :
         /\ ExhaustsLeased(s, c) =>
                /\ DeltaScopeCommits(c) = 1
                /\ \/ DeltaRollbacks(c) = 0
                   \/ /\ DeltaRollbacks(c) = 1
                      /\ \E u \in Units : exc'[u] \in {"commit", "rollback"}
                /\ DeltaReleases(c) = 1
                /\ conns'[c].st = "released"
         /\ StopsLeased(s, c) =>
                /\ DeltaScopeCommits(c) = 0
                /\ DeltaRollbacks(c) = 1
                /\ DeltaReleases(c) = 1
                /\ conns'[c].st = "released"]_vars

\* an async stream that leased has been abandoned and finalized: its
\* connection, which the cell of the consumer still names, was rolled back
\* and released once and never committed by the scope
C36_Witness ==
    \E u \in Units :
        /\ mode = "async"
        /\ cell[u] # NoCnx
        /\ conns[cell[u]].st = "released"
        /\ conns[cell[u]].rollbacks = 1
        /\ conns[cell[u]].releases = 1
        /\ ScopeCommits(conns[cell[u]]) = 0
        /\ conns[cell[u]].closed = 1

(* -------------------- exceptions caught inside a scope ------------------ *)

\* the entry of u that leased is in progress before and after this step
LeasingEntryStays(u) ==
    \E i \in DOMAIN stack[u] : stack[u][i].leased /\ i \in DOMAIN stack'[u]

\* this step leaves the entry of u that leased, with no exception propagating
OutermostExitNormal(u) ==
    /\ stack[u] # <<>>
    /\ stack'[u] = Pop(u)
    /\ Top(u).leased
    /\ exc[u] = "none"

LeaseRaises(u) ==
    exc[u] = "none" /\ exc'[u] = "lease"

\* in this step a call of running u, whose cell was Empty, puts a connection
\* in the cell
FillsCell(u) ==
    u \in started /\ cell[u] = NoCnx /\ cell'[u] # NoCnx

\* C38: when pool.lease() raises on an outermost entry the error reaches the
\* caller with the cell still Empty, no entry opened, and no connection
\* committed, rolled back or released; an error of lease() is never found
\* propagating beside a filled cell, so once it is caught the next call of
\* the unit leases again, and the connection it gets is a new one.
C38_FailedLeaseLeavesCellEmpty ==
    /\ [](\A u \in Units : exc[u] = "lease" => MustLease(u))
    /\ [][\A u \in Units :
            /\ LeaseRaises(u) =>
                   /\ cell[u] = NoCnx
                   /\ cell'[u] = NoCnx
                   /\ stack'[u] = stack[u]
                   /\ conns' = conns
            /\ FillsCell(u) =>
                   /\ conns[cell'[u]].st # "leased"
                   /\ conns'[cell'[u]].st = "leased"
                   /\ conns'[cell'[u]].releases = 0]_vars

\* the error of lease() is propagating in a unit that had a scope before,
\* which committed and released its connection
C38_Witness ==
    \E u \in Units :
        /\ exc[u] = "lease"
        /\ cell[u] = NoCnx
        /\ stack[u] = <<>>
        /\ \E c \in CnxIds : conns[c].st = "released" /\ ScopeCommits(conns[c]) = 1
        /\ \A c \in CnxIds : conns[c].st # "leased"

(* --------------------------- numbered markers --------------------------- *)

\* the markers $d of a text, from left to right
RECURSIVE MarkersIn(_, _)
MarkersIn(text, i) ==
    IF i > Len(text) THEN <<>>
    ELSE IF text[i] = "$" /\ i < Len(text)
    THEN <<SubSeq(text, i, i + 1)>> \o MarkersIn(text, i + 2)
    ELSE MarkersIn(text, i + 1)

\* the markers $1..$k
FirstMarkers(k) ==
    [i \in 1..k |-> <<"$", Digits[i + 1]>>]

\* the last operation is a render with the provider that a pool with
\* numbered markers hands out at every access of mung_symbol, for arguments
\* in which every path of the template resolves
NumberedRender ==
    /\ last.op = "render"
    /\ last.symbol = NumberedMungSymbolProvider
    /\ last.error \notin {"KeyError", "AttributeError"}

\* C39: a render with the provider of a pool that uses numbered markers
\* returns a statement whose markers are exactly $1..$k, k being the number
\* of #{...} occurrences of the template: the numbering starts at the first
\* marker in every render.
C39_NumberedRenderStartsAtFirstMarker ==
    NumberedRender =>
        /\ last.error = "none"
        /\ MarkersIn(last.sql, 1) = FirstMarkers(Len(ParameterPlaceholders))

TypeOK ==
    /\ mode \in {"sync", "async"}
    /\ started \subseteq Units
    /\ cell \in [Units -> CnxIds \cup {NoCnx}]
    /\ \A c \in CnxIds : conns[c].st \in {"free", "leased", "released"}
    /\ clock \in 0..MaxStmts
====
